---- MODULE Spec2Model ----
(***************************************************************************)
(* Model of the numerical-methods tutorial (React pages over mathjs).      *)
(*                                                                         *)
(* Each page is a component with its own useState fields; the Menu mounts  *)
(* one page at a time and a page's "Back to Menu" unmounts it, so a page's *)
(* state is fresh whenever it is opened.  One variable per page holds the  *)
(* page's fields as a record.                                              *)
(*                                                                         *)
(* Numbers.  JavaScript doubles are modelled as fixed-point values: an     *)
(* integer n stands for n/Scale.  Magnitudes above VMax overflow to        *)
(* +Infinity / -Infinity, NaN is a value of its own, and PTiny / NTiny     *)
(* stand for a non-zero number whose magnitude is below 1e-12 (and so      *)
(* below the grid's resolution); they occur only as derivative values and  *)
(* as tolerances.                                                          *)
(***************************************************************************)
EXTENDS Integers, Sequences, FiniteSets, TLC

VARIABLES page, alg, algRun, algCalls, bis, bisRun, nr, nrRun, gs, gsRun, lin, linRun, lu, luRun,
          simp, simpRun, nd, ndRun, opt, ode, odeRun

vars == <<page, alg, algRun, algCalls, bis, bisRun, nr, nrRun, gs, gsRun, lin, linRun, lu, luRun,
          simp, simpRun, nd, ndRun, opt, ode, odeRun>>

\* the variables of each page: its useState fields, the locals of a handler
\* that is running, and the history of its last run
algVars == <<alg, algRun, algCalls>>
bisVars == <<bis, bisRun>>
nrVars  == <<nr, nrRun>>
gsVars  == <<gs, gsRun>>
linVars == <<lin, linRun>>
luVars  == <<lu, luRun>>
simpVars == <<simp, simpRun>>
ndVars   == <<nd, ndRun>>
odeVars  == <<ode, odeRun>>
\* the pages by subject
rootVars   == <<algVars, bisVars, nrVars>>
linearVars == <<gsVars, linVars, luVars>>
calcVars   == <<simpVars, ndVars, opt, odeVars>>

(*************************** fixed-point numbers ***************************)
Scale == 1000
VMax  == 2140 * Scale
PInf  == VMax + 1
NInf  == 0 - (VMax + 1)
NaN   == VMax + 2
PTiny == VMax + 3
NTiny == VMax + 4

IsNaN(v)    == v = NaN
IsInf(v)    == v = PInf \/ v = NInf
IsTiny(v)   == v = PTiny \/ v = NTiny
IsGrid(v)   == v >= 0 - VMax /\ v <= VMax
\* Number.isFinite
IsFinite(v) == IsGrid(v) \/ IsTiny(v)

AbsInt(n) == IF n < 0 THEN 0 - n ELSE n
\* sign of a number other than NaN: -1, 0, 1
Sgn(v) == IF v = PInf \/ v = PTiny THEN 1
          ELSE IF v = NInf \/ v = NTiny THEN 0 - 1
          ELSE IF v > 0 THEN 1 ELSE IF v < 0 THEN 0 - 1 ELSE 0
\* an integer result brought back into the number format (overflow -> Infinity)
Sat(n) == IF n > VMax THEN PInf ELSE IF n < 0 - VMax THEN NInf ELSE n
\* position of a number other than NaN on the real line, in half grid units
Rank(v) == IF v = PInf THEN 2 * VMax + 2
           ELSE IF v = NInf THEN 0 - (2 * VMax + 2)
           ELSE IF v = PTiny THEN 1
           ELSE IF v = NTiny THEN 0 - 1
           ELSE 2 * v

\* x < y  (false when either side is NaN)
FLt(x, y) == ~IsNaN(x) /\ ~IsNaN(y) /\ Rank(x) < Rank(y)
\* x > y
FGt(x, y) == FLt(y, x)
\* x / 2 < y   (the halving is exact, as it is for doubles)
HalfLt(x, y) == ~IsNaN(x) /\ ~IsNaN(y)
                /\ IF IsInf(x) \/ IsInf(y) THEN Rank(x) < Rank(y)
                   ELSE Rank(x) < 2 * Rank(y)
\* x / 2 > y
HalfGt(x, y) == ~IsNaN(x) /\ ~IsNaN(y)
                /\ IF IsInf(x) \/ IsInf(y) THEN Rank(x) > Rank(y)
                   ELSE Rank(x) > 2 * Rank(y)

FNeg(x) == IF IsNaN(x) THEN NaN
           ELSE IF x = PInf THEN NInf ELSE IF x = NInf THEN PInf
           ELSE IF x = PTiny THEN NTiny ELSE IF x = NTiny THEN PTiny
           ELSE 0 - x
\* Math.abs
FAbs(x) == IF IsNaN(x) THEN NaN ELSE IF Sgn(x) < 0 THEN FNeg(x) ELSE x
\* a tiny operand of a sum is absorbed by the other operand
Grid0(x) == IF IsTiny(x) THEN 0 ELSE x
FAdd(x, y) == IF IsNaN(x) \/ IsNaN(y) THEN NaN
              ELSE IF IsInf(x) /\ IsInf(y) THEN (IF x = y THEN x ELSE NaN)
              ELSE IF IsInf(x) THEN x
              ELSE IF IsInf(y) THEN y
              ELSE Sat(Grid0(x) + Grid0(y))
FSub(x, y) == FAdd(x, FNeg(y))
\* the sign of the product x * y as a number (-1, 0, 1 or NaN): what the
\* code's tests f(a) * f(b) > 0 and f(a) * f(c) < 0 look at.  A product of
\* non-zero doubles of these magnitudes does not underflow to zero.
SignProd(x, y) == IF IsNaN(x) \/ IsNaN(y) THEN NaN
                  ELSE IF (IsInf(x) /\ y = 0) \/ (IsInf(y) /\ x = 0) THEN NaN
                  ELSE Sgn(x) * Sgn(y)
\* the product of two magnitudes, rounded down on the grid, multiplied by
\* parts to stay within the integers at hand; above VMax it is Infinity
MulAbs(a, b) ==
  IF (a \div Scale) * (b \div Scale) > VMax \div Scale THEN PInf
  ELSE Sat((a \div Scale) * (b \div Scale) * Scale + (a \div Scale) * (b % Scale)
           + (a % Scale) * (b \div Scale) + ((a % Scale) * (b % Scale)) \div Scale)
\* the quotient of two magnitudes, rounded down on the grid, divided by parts
DivAbs(a, b) ==
  IF a \div b > VMax \div Scale THEN PInf
  ELSE Sat((a \div b) * Scale + ((a % b) * Scale) \div b)
\* product, rounded towards zero on the grid
FMul(x, y) == IF IsNaN(x) \/ IsNaN(y) THEN NaN
              ELSE IF IsInf(x) \/ IsInf(y)
                   THEN (IF Sgn(x) * Sgn(y) = 0 THEN NaN
                         ELSE IF Sgn(x) * Sgn(y) > 0 THEN PInf ELSE NInf)
              ELSE IF x = 0 \/ y = 0 THEN 0
              ELSE IF IsTiny(x) \/ IsTiny(y)
                   THEN (IF Sgn(x) * Sgn(y) > 0 THEN PTiny ELSE NTiny)
              ELSE Sgn(x) * Sgn(y) * MulAbs(AbsInt(x), AbsInt(y))
\* quotient, with the IEEE results for a zero or infinite divisor
FDiv(x, y) == IF IsNaN(x) \/ IsNaN(y) THEN NaN
              ELSE IF IsInf(x) /\ IsInf(y) THEN NaN
              ELSE IF IsInf(x)
                   THEN (IF Sgn(y) >= 0 THEN x ELSE FNeg(x))
              ELSE IF IsInf(y) THEN 0
              ELSE IF y = 0
                   THEN (IF Sgn(x) = 0 THEN NaN
                         ELSE IF Sgn(x) > 0 THEN PInf ELSE NInf)
              ELSE IF Grid0(x) = 0 THEN 0
              ELSE IF IsTiny(y)
                   THEN (IF Sgn(x) * Sgn(y) > 0 THEN PInf ELSE NInf)
              ELSE Sgn(x) * Sgn(y) * DivAbs(AbsInt(x), AbsInt(y))
\* a point a third of the way from x to y, against which C22 is tried
MidThird(x, y) == IF IsGrid(x) /\ IsGrid(y) THEN x + (y - x) \div 3 ELSE NaN
\* (x + y) / 2.  A sum that does not halve on the grid is a tie between two
\* neighbours; it goes to the one with the even significand, which a whole
\* number has, and downwards between two others.
Mid(x, y) == LET s == FAdd(x, y)
             IN  IF ~IsGrid(s) THEN s
                 ELSE IF s % 2 = 0 THEN s \div 2
                 ELSE IF ((s + 1) \div 2) % Scale = 0 THEN (s + 1) \div 2
                 ELSE s \div 2
\* the real number k as a grid value
Num(k) == k * Scale
\* the decimal literal k/1000 as a grid value
Milli(k) == (k * Scale) \div 1000

(************************* the functions a user types **********************)
FnCubic == "x^3 - x - 2"
FnQuad  == "x^2 - 2*x"
FnNoRoot == "x^2 + 1"
FnSlope == "0.01*x"
FnSqrt2 == "x*x - 2"
FnFlat  == "1e-13*x^2 + 1"
FnBad   == "x^3 - "
FnSin   == "sin(x)"
FnSq    == "x^2"
FnRecip == "1/x"
FnUndef == "x + y"
FnCost  == "0.05*x^2 - 3*x + 200"
FnCondUndef == "x > 40 ? y : (x-50)^2"

\* mathjs compile(fx) succeeds
Compiles(fn) == fn # FnBad

\* evaluate throws: y is an undefined symbol wherever x + y is evaluated, and
\* in the branch of the conditional that is taken for x > 40
Throws(fn, x) == fn = FnUndef \/ (fn = FnCondUndef /\ FGt(x, Num(40)))

\* Math.PI
Pi == (31416 * Scale) \div 10000
\* sin on [0, pi/2]: x (1 - x^2/6 (1 - x^2/20 (1 - x^2/42)))
SinR(x) ==
  LET x2 == FMul(x, x)
      t3 == FSub(Num(1), FDiv(x2, Num(42)))
      t2 == FSub(Num(1), FMul(FDiv(x2, Num(20)), t3))
      t1 == FSub(Num(1), FMul(FDiv(x2, Num(6)), t2))
  IN  FMul(x, t1)
\* an angle of [0, 2 pi) brought to [0, pi] by sin(x + pi) = -sin(x), and one
\* of [0, pi] brought to [0, pi/2] by sin(pi - x) = sin(x)
SinTurn(a) == IF a > Pi THEN a - Pi ELSE a
SinFold(b) == IF 2 * b > Pi THEN Pi - b ELSE b
\* the symmetries that change the sign: sin(-x) = -sin(x), sin(x + pi) = -sin(x)
SinNeg(x) == (x < 0) # (AbsInt(x) % (2 * Pi) > Pi)
SinSigned(neg, v) == IF neg THEN FNeg(v) ELSE v
\* sin(x), brought to [0, pi/2] by its symmetries
Sin(x) == IF ~IsGrid(x) THEN (IF IsTiny(x) THEN x ELSE NaN)
          ELSE SinSigned(SinNeg(x), SinR(SinFold(SinTurn(AbsInt(x) % (2 * Pi)))))

\* x^3 - x - 2 term by term
Cubic(x) == FSub(FSub(FMul(FMul(x, x), x), x), Num(2))

\* compiled.evaluate({x}).  In doubles x^3 - x - 2 is exactly 0 at the double
\* next to its root (1.5213797068045676), and so it is here at the grid
\* value next below the root; x*x - 2 is 0 at no double and at no grid value.
F(fn, x) ==
  IF fn = FnCubic
  THEN IF IsGrid(x) /\ FLt(Cubic(x), 0) /\ FGt(Cubic(FAdd(x, 1)), 0) THEN 0 ELSE Cubic(x)
  ELSE IF fn = FnSqrt2 THEN FSub(FMul(x, x), Num(2))
  ELSE IF fn = FnQuad THEN FSub(FMul(x, x), FMul(Num(2), x))
  ELSE IF fn = FnNoRoot THEN FAdd(FMul(x, x), Num(1))
  ELSE IF fn = FnSlope THEN FMul(Scale \div 100, x)
  ELSE IF fn = FnFlat THEN FAdd(FMul(PTiny, FMul(x, x)), Num(1))
  ELSE IF fn = FnSin THEN Sin(x)
  ELSE IF fn = FnSq THEN FMul(x, x)
  ELSE IF fn = FnRecip THEN FDiv(Num(1), x)
  ELSE IF fn = FnCost
  THEN FAdd(FSub(FMul(Milli(50), FMul(x, x)), FMul(Num(3), x)), Num(200))
  ELSE IF fn = FnCondUndef THEN FMul(FSub(x, Num(50)), FSub(x, Num(50)))
  ELSE NaN

\* derivative(fx, 'x').compile().evaluate({x})
DF(fn, x) ==
  IF fn = FnCubic THEN FSub(FMul(Num(3), FMul(x, x)), Num(1))
  ELSE IF fn = FnQuad THEN FSub(FMul(Num(2), x), Num(2))
  ELSE IF fn = FnSqrt2 THEN FMul(Num(2), x)
  ELSE IF fn = FnNoRoot THEN FMul(Num(2), x)
  ELSE IF fn = FnSlope THEN Scale \div 100
  ELSE IF fn = FnFlat THEN FMul(PTiny, FMul(Num(2), x))
  ELSE IF fn = FnSin THEN Sin(FAdd(x, Pi \div 2))
  ELSE IF fn = FnSq THEN FMul(Num(2), x)
  ELSE IF fn = FnRecip THEN FNeg(FDiv(Num(1), FMul(x, x)))
  ELSE IF fn = FnUndef THEN Num(1)
  ELSE NaN


(***************************** common values ******************************)
Null   == [kind |-> "null"]
NoCall == [kind |-> "none"]
Idle   == [pc |-> "idle"]
\* a render threw: without an error boundary React unmounts the whole tree
Crashed == "Crashed"
\* performance.now() differences: the clock is outside the program's control
Times == {0, 1}

(************************** Algorithms.jsx *********************************)
(* A click runs its handler to completion before any other event is        *)
(* handled.  The handler's loops are modelled one iteration per step, with *)
(* algRun holding the handler's locals; no other action of the page is     *)
(* enabled until the handler is back at "idle".  algCalls records the      *)
(* calls the last runComparison made and what each did (history).          *)
MsgSign       == "f(a) and f(b) must have opposite signs"
MsgBisExceed  == "Bisection exceeded max iterations (should be impossible)"
MsgNewtonFail == "Newton-Raphson failed to converge within max iterations"
MsgSyntax     == "SyntaxError"

NewtonMaxIt    == 100
BisectionMaxIt == 100
\* the nudge 1e-3
Nudge == Scale \div 1000

\* Math.abs(dfx) < 1e-12 : no non-zero grid number is that small
DerivSmall(d) == d = 0 \/ IsTiny(d)

\* df = x => (f(x + h) - f(x - h)) / (2 * h) with h = 1e-6.  On the grid the
\* central difference of these polynomials is their derivative; where f is
\* not finite the difference f(x+h) - f(x-h) is computed on equal values.
AlgDfAt(fn, x, fx) == IF IsFinite(fx) THEN DF(fn, x)
                      ELSE FDiv(FSub(fx, fx), PTiny)
AlgDf(fn, x) == AlgDfAt(fn, x, F(fn, x))

\* a guard without the sign test, against which C1 is tried
BisectionGuardNoSign(fn, a, b) == IF ~Compiles(fn) THEN MsgSyntax ELSE ""
\* bisection's guard before its loop: the error it throws, "" when none
BisectionGuard(fn, a, b) ==
  IF ~Compiles(fn) THEN MsgSyntax
  ELSE IF FGt(SignProd(F(fn, a), F(fn, b)), 0) THEN MsgSign
  ELSE ""

\* bisection's test inside the loop: return c
BisectionDone(fn, aa, bb, tol) ==
  HalfLt(FSub(bb, aa), tol) \/ F(fn, Mid(aa, bb)) = 0

\* (f(aa) * f(c) < 0) ? (bb = c) : (aa = c)
BisectionLeft(fn, aa, c) == FLt(SignProd(F(fn, aa), F(fn, c)), 0)

\* newtonRaphson's step from x
NewtonNext(fn, x) == FSub(x, FDiv(F(fn, x), AlgDf(fn, x)))
\* Math.abs(xNext - x) < tol
NewtonConverged(x, xNext, tol) == FLt(FAbs(FSub(xNext, x)), tol)

\* a result object whose iteration count takes in the clock, against which
\* C16 is tried
AlgResultClocked(call, t) ==
  [root |-> call.root, iters |-> call.iters + t, time |-> t, err |-> call.err]
\* the object a successful call returns ({root, iters, time, err})
AlgResult(call, t) ==
  [root |-> call.root, iters |-> call.iters, time |-> t, err |-> call.err]

AlgFuncs == {FnCubic, FnQuad, FnSlope, FnSqrt2}
AlgAs    == {Num(0), Num(2)}
AlgBs    == {Num(2), Num(3)}
AlgTols  == {0, 1, 100, PTiny}

\* useState defaults; the default tol 1e-6 is taken as the grid's resolution
AlgInit == [funcStr |-> FnCubic, a |-> Num(0), b |-> Num(2), tol |-> 1,
            results |-> Null, errMsg |-> ""]
\* in: the inputs the last runComparison read
AlgInputs == [fn |-> alg.funcStr, a |-> alg.a, b |-> alg.b, tol |-> alg.tol]
\* again: the results on the page when the last runComparison began were
\* those of a run on the same inputs
AlgNoCalls == [in |-> NoCall, again |-> FALSE,
               bis |-> NoCall, nr1 |-> NoCall, nr2 |-> NoCall]
AlgAgain == algCalls.in = AlgInputs /\ alg.results # Null

AlgIdle == page = "Algorithms" /\ algRun.pc = "idle"

AlgSetFuncStr(v) == /\ AlgIdle
                    /\ alg' = [alg EXCEPT !.funcStr = v]
                    /\ UNCHANGED <<calcVars, page, algRun, algCalls, bisVars, nrVars, gsVars, linVars, luVars>>
AlgSetA(v) == /\ AlgIdle
              /\ alg' = [alg EXCEPT !.a = v]
              /\ UNCHANGED <<calcVars, page, algRun, algCalls, bisVars, nrVars, gsVars, linVars, luVars>>
AlgSetB(v) == /\ AlgIdle
              /\ alg' = [alg EXCEPT !.b = v]
              /\ UNCHANGED <<calcVars, page, algRun, algCalls, bisVars, nrVars, gsVars, linVars, luVars>>
AlgSetTol(v) == /\ AlgIdle
                /\ alg' = [alg EXCEPT !.tol = v]
                /\ UNCHANGED <<calcVars, page, algRun, algCalls, bisVars, nrVars, gsVars, linVars, luVars>>

\* runComparison up to the first iteration of bisection's loop
RunComparison ==
  /\ AlgIdle
  /\ LET msg == BisectionGuard(alg.funcStr, alg.a, alg.b)
     IN  IF msg # ""
         THEN /\ alg' = [alg EXCEPT !.errMsg = msg, !.results = Null]
              /\ algRun' = Idle
              /\ algCalls' = [in |-> AlgInputs, again |-> AlgAgain,
                              bis |-> [kind |-> "throw", msg |-> msg, trace |-> <<>>],
                              nr1 |-> NoCall, nr2 |-> NoCall]
         ELSE /\ alg' = alg
              /\ algRun' = [pc |-> "bis", aa |-> alg.a, bb |-> alg.b, i |-> 1]
              /\ algCalls' = [in |-> AlgInputs, again |-> AlgAgain,
                              bis |-> [kind |-> "running", trace |-> <<>>],
                              nr1 |-> NoCall, nr2 |-> NoCall]
  /\ UNCHANGED <<calcVars, page, bisVars, nrVars, gsVars, linVars, luVars>>

\* one iteration of bisection's loop, or the throw after it
AlgBisStep ==
  /\ page = "Algorithms" /\ algRun.pc = "bis"
  /\ LET aa == algRun.aa
         bb == algRun.bb
         i  == algRun.i
         c  == Mid(aa, bb)
         tr == algCalls.bis.trace
     IN  IF i > BisectionMaxIt
         THEN /\ alg' = [alg EXCEPT !.errMsg = MsgBisExceed, !.results = Null]
              /\ algRun' = Idle
              /\ algCalls' = [algCalls EXCEPT !.bis =
                                [kind |-> "throw", msg |-> MsgBisExceed, trace |-> tr]]
         ELSE IF BisectionDone(alg.funcStr, aa, bb, alg.tol)
         THEN /\ alg' = alg
              /\ algRun' = [pc |-> "nr1", x |-> Mid(alg.a, alg.b), i |-> 1]
              /\ algCalls' = [algCalls EXCEPT
                                !.bis = [kind |-> "ok", root |-> c, iters |-> i,
                                         err |-> FAbs(F(alg.funcStr, c)), trace |-> tr],
                                !.nr1 = [kind |-> "running", trace |-> <<>>]]
         ELSE /\ alg' = alg
              /\ algRun' = IF BisectionLeft(alg.funcStr, aa, c)
                           THEN [algRun EXCEPT !.bb = c, !.i = i + 1]
                           ELSE [algRun EXCEPT !.aa = c, !.i = i + 1]
              /\ algCalls' = [algCalls EXCEPT !.bis.trace =
                                Append(tr, [i |-> i, a |-> aa, b |-> bb, c |-> c])]
  /\ UNCHANGED <<calcVars, page, bisVars, nrVars, gsVars, linVars, luVars>>

\* one iteration of newtonRaphson's loop, or the throw after it, in the
\* first call (from the midpoint) or the second (from bisection's root);
\* the handler ends with setResults
AlgNewtonRec(i, x, dfx, act) == [i |-> i, x |-> x, dfx |-> dfx, act |-> act]
AlgNewtonThrown(tr) == [kind |-> "throw", msg |-> MsgNewtonFail, trace |-> tr]
\* a retry from a point next to the given one, against which C26 is tried
AlgRetryElsewhere(root) == [pc |-> "nr2", x |-> FAdd(root, Num(1)), i |-> 1]
\* the fallback in runComparison's catch: newtonRaphson(bis.root, tol)
AlgRetryStart(root) == [pc |-> "nr2", x |-> root, i |-> 1]
\* the call that converged returns, and runComparison stores the results
AlgNewtonReturn(pc, call) ==
  /\ \E tb \in Times, tn \in Times :
        alg' = [alg EXCEPT !.errMsg = "",
                  !.results = [kind |-> "results",
                               bis |-> AlgResult(algCalls.bis, tb),
                               newton |-> AlgResult(call, tn)]]
  /\ algRun' = Idle
  /\ algCalls' = [algCalls EXCEPT ![pc] = call]
\* one iteration of newtonRaphson, given df(x) and the next iterate
AlgNewtonIter(pc, x, i, fn, tr, dfx, xNext) ==
  IF i > NewtonMaxIt
  THEN IF pc = "nr1"
       THEN /\ alg' = alg
            /\ algRun' = AlgRetryStart(algCalls.bis.root)
            /\ algCalls' = [algCalls EXCEPT !.nr1 = AlgNewtonThrown(tr),
                              !.nr2 = [kind |-> "running", trace |-> <<>>]]
       ELSE /\ \E tb \in Times :
                 alg' = [alg EXCEPT !.errMsg = "",
                           !.results = [kind |-> "results",
                                        bis |-> AlgResult(algCalls.bis, tb),
                                        newton |-> Null]]
            /\ algRun' = Idle
            /\ algCalls' = [algCalls EXCEPT !.nr2 = AlgNewtonThrown(tr)]
  ELSE IF DerivSmall(dfx)
  THEN /\ alg' = alg
       /\ algRun' = [algRun EXCEPT !.x = FAdd(x, Nudge), !.i = i + 1]
       /\ algCalls' = [algCalls EXCEPT
                         ![pc].trace = Append(tr, AlgNewtonRec(i, x, dfx, "nudge"))]
  ELSE IF NewtonConverged(x, xNext, alg.tol)
  THEN AlgNewtonReturn(pc, [kind |-> "ok", root |-> xNext, iters |-> i,
                            err |-> FAbs(F(fn, xNext)),
                            trace |-> Append(tr, AlgNewtonRec(i, x, dfx, "converged"))])
  ELSE /\ alg' = alg
       /\ algRun' = [algRun EXCEPT !.x = xNext, !.i = i + 1]
       /\ algCalls' = [algCalls EXCEPT
                         ![pc].trace = Append(tr, AlgNewtonRec(i, x, dfx, "step"))]

AlgNewtonStep ==
  /\ page = "Algorithms" /\ algRun.pc \in {"nr1", "nr2"}
  /\ AlgNewtonIter(algRun.pc, algRun.x, algRun.i, alg.funcStr,
                   algCalls[algRun.pc].trace,
                   AlgDf(alg.funcStr, algRun.x), NewtonNext(alg.funcStr, algRun.x))
  /\ UNCHANGED <<calcVars, page, bisVars, nrVars, gsVars, linVars, luVars>>

(*************************** Bisection.jsx *********************************)
BisMsgSyntax    == "Syntax error in f(x)"
BisMsgNotFinite == "f(a) or f(b) is not a finite number"
BisMsgSign      == "f(a) and f(b) must have opposite signs"

BisPageCap == 100

\* evaluateF: NaN when the expression did not compile or evaluation throws
evaluateF(fn, x) == IF Compiles(fn) THEN F(fn, x) ELSE NaN

\* the validation effect on [compiled, fa, fb]: the banner after a render
BisErrMsg(fn, a, b) ==
  LET fa == evaluateF(fn, a)
      fb == evaluateF(fn, b)
  IN  IF ~Compiles(fn) THEN BisMsgSyntax
      ELSE IF ~IsFinite(fa) \/ ~IsFinite(fb) THEN BisMsgNotFinite
      ELSE IF FGt(SignProd(fa, fb), 0) THEN BisMsgSign
      ELSE ""

\* a loop condition on the width instead of the half-width, against which
\* C19 is tried
BisPageGoOnWidth(aa, bb, eps, i) == i <= BisPageCap /\ FGt(FSub(bb, aa), eps)
\* the loop condition of runBisection: i <= 100 && (bb - aa) / 2 > eps
BisPageGoOn(aa, bb, eps, i) == i <= BisPageCap /\ HalfGt(FSub(bb, aa), eps)

\* evaluateF(aa) * fc < 0
BisPageLeft(fn, aa, fc) == FLt(SignProd(evaluateF(fn, aa), fc), 0)

BisFuncs == {FnCubic, FnQuad, FnBad}
BisAs    == {Num(0 - 2), Num(1), Num(2)}
BisBs    == {Num(3), Num(2)}
BisTols  == {1, 500, PTiny}

\* useState defaults, after the first validation effect
BisInit == [fx |-> FnCubic, a |-> Num(0 - 2), b |-> Num(3), tol |-> 1,
            steps |-> <<>>, errMsg |-> BisErrMsg(FnCubic, Num(0 - 2), Num(3))]
\* last: what the last click on "run" did since the inputs were edited
BisIdle(last) == [pc |-> "idle", last |-> last]

BisAtRest == page = "Bisection" /\ bisRun.pc = "idle"

BisSetFx(v) == /\ BisAtRest
               /\ bis' = [bis EXCEPT !.fx = v, !.errMsg = BisErrMsg(v, bis.a, bis.b)]
               /\ bisRun' = BisIdle("none")
               /\ UNCHANGED <<calcVars, page, algVars, nrVars, gsVars, linVars, luVars>>
BisSetA(v) == /\ BisAtRest
              /\ bis' = [bis EXCEPT !.a = v, !.errMsg = BisErrMsg(bis.fx, v, bis.b)]
              /\ bisRun' = BisIdle("none")
              /\ UNCHANGED <<calcVars, page, algVars, nrVars, gsVars, linVars, luVars>>
BisSetB(v) == /\ BisAtRest
              /\ bis' = [bis EXCEPT !.b = v, !.errMsg = BisErrMsg(bis.fx, bis.a, v)]
              /\ bisRun' = BisIdle("none")
              /\ UNCHANGED <<calcVars, page, algVars, nrVars, gsVars, linVars, luVars>>
BisSetTol(v) == /\ BisAtRest
                /\ bis' = [bis EXCEPT !.tol = v]
                /\ bisRun' = BisIdle("none")
                /\ UNCHANGED <<calcVars, page, algVars, nrVars, gsVars, linVars, luVars>>

\* runBisection up to its loop
RunBisection ==
  /\ BisAtRest
  /\ bis' = bis
  /\ IF bis.errMsg # "" THEN bisRun' = BisIdle("refused")
     ELSE bisRun' = [pc |-> "loop", aa |-> bis.a, bb |-> bis.b, i |-> 1, log |-> <<>>]
  /\ UNCHANGED <<calcVars, page, algVars, nrVars, gsVars, linVars, luVars>>

\* one iteration of runBisection's loop, or setSteps(log) after it
BisPageStep ==
  /\ page = "Bisection" /\ bisRun.pc = "loop"
  /\ LET aa  == bisRun.aa
         bb  == bisRun.bb
         i   == bisRun.i
         c   == Mid(aa, bb)
         fc  == evaluateF(bis.fx, c)
         log == Append(bisRun.log, [i |-> i, a |-> aa, b |-> bb, c |-> c, fc |-> fc])
     IN  IF ~BisPageGoOn(aa, bb, bis.tol, i)
         THEN /\ bis' = [bis EXCEPT !.steps = bisRun.log]
              /\ bisRun' = BisIdle("ran")
         ELSE IF fc = 0
         THEN /\ bis' = [bis EXCEPT !.steps = log]
              /\ bisRun' = BisIdle("ran")
         ELSE /\ bis' = bis
              /\ bisRun' = IF BisPageLeft(bis.fx, aa, fc)
                           THEN [bisRun EXCEPT !.bb = c, !.i = i + 1, !.log = log]
                           ELSE [bisRun EXCEPT !.aa = c, !.i = i + 1, !.log = log]
  /\ UNCHANGED <<calcVars, page, algVars, nrVars, gsVars, linVars, luVars>>

(************************* NewtonRaphson page ******************************)
NrMsgSyntax  == "Syntax error in f(x)"
NrMsgNoDeriv == "Could not compute derivative f'(x)"
NrMsgX0      == "Initial guess x0 must be a number"
NoteDeriv     == "Derivative zero / invalid - stop"
NoteConverged == "converged"

NrMaxIterDefault == 20

\* compiledDf: derivative(fx, 'x') of an expression that compiled
DfCompiles(fn) == Compiles(fn)

\* the validation effect on [compiledF, compiledDf, x0]
NrErrMsg(fn, x0) ==
  IF ~Compiles(fn) THEN NrMsgSyntax
  ELSE IF ~DfCompiles(fn) THEN NrMsgNoDeriv
  ELSE IF ~IsFinite(x0) THEN NrMsgX0
  ELSE ""

\* !Number.isFinite(dfx) || dfx === 0
NrDerivStop(dfx) == ~IsFinite(dfx) \/ dfx = 0

\* a loop without the y-axis test, against which C5 is tried
NrFNever(fxVal, eps) == FALSE
\* Math.abs(fxVal) < eps : converged on the y axis
NrFConverged(fxVal, eps) == FLt(FAbs(fxVal), eps)
\* Math.abs(xNew - x) < eps : converged on the x axis
NrXConverged(x, xNew, eps) == FLt(FAbs(FSub(xNew, x)), eps)

\* the loop of runNewton.  The result carries the log and, as history, why
\* the loop ended and the derivative values it divided by.
RECURSIVE NrPageLoop(_, _, _, _, _, _, _)
NrPageRec(i, x, fxVal, dfx, note) ==
  [i |-> i, x |-> x, fx |-> fxVal, dfx |-> dfx, note |-> note]
\* the end of an iteration, given xNew = x - fxVal / dfx
NrPageMove(fn, x, eps, maxIter, i, log, divs, fxVal, dfx, xNew) ==
  IF NrXConverged(x, xNew, eps)
  THEN [log |-> Append(Append(log, NrPageRec(i, x, fxVal, dfx, "")),
                       NrPageRec(i + 1, xNew, F(fn, xNew), DF(fn, xNew), NoteConverged)),
        why |-> "xconv", divs |-> Append(divs, dfx)]
  ELSE NrPageLoop(fn, xNew, eps, maxIter, i + 1,
                  Append(log, NrPageRec(i, x, fxVal, dfx, "")), Append(divs, dfx))
\* one iteration, given fxVal = f(x) and dfx = f'(x)
NrPageIter(fn, x, eps, maxIter, i, log, divs, fxVal, dfx) ==
  IF NrFConverged(fxVal, eps)
  THEN [log |-> Append(log, NrPageRec(i, x, fxVal, dfx, "")),
        why |-> "fconv", divs |-> divs]
  ELSE IF NrDerivStop(dfx)
  THEN [log |-> Append(log, NrPageRec(i, x, fxVal, dfx, NoteDeriv)),
        why |-> "deriv", divs |-> divs]
  ELSE NrPageMove(fn, x, eps, maxIter, i, log, divs, fxVal, dfx,
                  FSub(x, FDiv(fxVal, dfx)))
NrPageLoop(fn, x, eps, maxIter, i, log, divs) ==
  IF i > maxIter THEN [log |-> log, why |-> "exhausted", divs |-> divs]
  ELSE NrPageIter(fn, x, eps, maxIter, i, log, divs, F(fn, x), DF(fn, x))

NrFuncs    == {FnCubic, FnNoRoot, FnFlat, FnBad}
NrX0s      == {Num(2), Num(0)}
NrTols     == {1, 100, PTiny}
NrMaxIters == {1, 3, 4, NrMaxIterDefault}

\* useState defaults; the default tol 1e-4 is taken as the grid's resolution
NrInit == [fx |-> FnCubic, x0 |-> Num(2), tol |-> 1, maxIter |-> NrMaxIterDefault,
           steps |-> <<>>, errMsg |-> NrErrMsg(FnCubic, Num(2))]

NrOpen == page = "NewtonRaphson"

NrSetFx(v) == /\ NrOpen
              /\ nr' = [nr EXCEPT !.fx = v, !.errMsg = NrErrMsg(v, nr.x0)]
              /\ UNCHANGED <<calcVars, page, nrRun, algVars, bisVars, gsVars, linVars, luVars>>
NrSetX0(v) == /\ NrOpen
              /\ nr' = [nr EXCEPT !.x0 = v, !.errMsg = NrErrMsg(nr.fx, v)]
              /\ UNCHANGED <<calcVars, page, nrRun, algVars, bisVars, gsVars, linVars, luVars>>
NrSetTol(v) == /\ NrOpen
               /\ nr' = [nr EXCEPT !.tol = v]
               /\ UNCHANGED <<calcVars, page, nrRun, algVars, bisVars, gsVars, linVars, luVars>>
NrSetMaxIter(v) == /\ NrOpen
                   /\ nr' = [nr EXCEPT !.maxIter = v]
                   /\ UNCHANGED <<calcVars, page, nrRun, algVars, bisVars, gsVars, linVars, luVars>>

\* runNewton; nrRun keeps the inputs and the ending of the last run (history)
RunNewton ==
  /\ NrOpen
  /\ IF nr.errMsg # "" THEN /\ nr' = nr
                            /\ nrRun' = [kind |-> "refused"]
     ELSE LET r == NrPageLoop(nr.fx, nr.x0, nr.tol, nr.maxIter, 1, <<>>, <<>>)
          IN  /\ nr' = [nr EXCEPT !.steps = r.log]
              /\ nrRun' = [kind |-> "ran", fx |-> nr.fx, tol |-> nr.tol,
                           maxIter |-> nr.maxIter, why |-> r.why, divs |-> r.divs]
  /\ UNCHANGED <<calcVars, page, algVars, bisVars, gsVars, linVars, luVars>>

(***************************** navigation **********************************)
\* Menu: handleBisection, handleNewtonRaphson, handleAlgo, ... mount a page
OpenPage(p) == /\ page = "Menu"
               /\ page' = p
               /\ UNCHANGED <<calcVars, algVars, bisVars, nrVars, gsVars, linVars, luVars>>

\*LINEAR-PAGES
(************************ matrices and vectors typed in *********************)
TxtA3      == "4 1 2; 3 5 1; 1 1 3"
TxtA2      == "3 2; 2 3"
TxtANoDom  == "4 1 2; 3 5 1; 1 1 2"
TxtASing   == "1 2; 2 4"
TxtACycle  == "1 4 1; 1 1 1; 2 0 1"
TxtASwap   == "1 2; 3 4"
TxtARect   == "1 2 3; 4 5 6"
TxtARagged == "1 2; 3"
TxtB3      == "4 7 3"
TxtB2      == "1 2"
TxtBs3     == "4 7 3 | 4.1 7 3"
TxtBsLu    == "4 7 3 | 2 1 5"
TxtBsMixed == "4 7 3 | 2 1"

\* str.split(';').map(row => row.trim().split(/\s+/).map(Number)): the rows
\* of numbers a matrix text splits into
SplitRows(str) ==
  IF str = TxtA3 THEN <<<<Num(4), Num(1), Num(2)>>, <<Num(3), Num(5), Num(1)>>,
                        <<Num(1), Num(1), Num(3)>>>>
  ELSE IF str = TxtA2 THEN <<<<Num(3), Num(2)>>, <<Num(2), Num(3)>>>>
  ELSE IF str = TxtANoDom THEN <<<<Num(4), Num(1), Num(2)>>, <<Num(3), Num(5), Num(1)>>,
                                 <<Num(1), Num(1), Num(2)>>>>
  ELSE IF str = TxtACycle THEN <<<<Num(1), Num(4), Num(1)>>, <<Num(1), Num(1), Num(1)>>,
                                 <<Num(2), Num(0), Num(1)>>>>
  ELSE IF str = TxtASwap THEN <<<<Num(1), Num(2)>>, <<Num(3), Num(4)>>>>
  ELSE IF str = TxtASing THEN <<<<Num(1), Num(2)>>, <<Num(2), Num(4)>>>>
  ELSE IF str = TxtARect THEN <<<<Num(1), Num(2), Num(3)>>, <<Num(4), Num(5), Num(6)>>>>
  ELSE IF str = TxtARagged THEN <<<<Num(1), Num(2)>>, <<Num(3)>>>>
  ELSE <<<<NaN>>>>

\* str.split('|').map(vec => vec.trim().split(/[,\s]+/).map(Number)): the
\* vectors a right-hand-side text splits into
SplitVectors(str) ==
  IF str = TxtB3 THEN <<<<Num(4), Num(7), Num(3)>>>>
  ELSE IF str = TxtB2 THEN <<<<Num(1), Num(2)>>>>
  ELSE IF str = TxtBs3 THEN <<<<Num(4), Num(7), Num(3)>>,
                              <<Num(4) + Scale \div 10, Num(7), Num(3)>>>>
  ELSE IF str = TxtBsLu THEN <<<<Num(4), Num(7), Num(3)>>, <<Num(2), Num(1), Num(5)>>>>
  ELSE IF str = TxtBsMixed THEN <<<<Num(4), Num(7), Num(3)>>, <<Num(2), Num(1)>>>>
  ELSE <<<<NaN>>>>

\* mathjs matrix(rows) throws a DimensionError when the rows differ in length
Ragged(rows) == \E i \in 1..Len(rows) : Len(rows[i]) # Len(rows[1])

(*************************** vectors of doubles ****************************)
RECURSIVE SumF(_)
\* the sum of a sequence, added from left to right
SumF(s) == IF s = <<>> THEN 0
           ELSE FAdd(SumF(SubSeq(s, 1, Len(s) - 1)), s[Len(s)])

\* Math.max of two numbers (NaN when either is NaN)
FMax(x, y) == IF IsNaN(x) \/ IsNaN(y) THEN NaN ELSE IF FLt(x, y) THEN y ELSE x

RECURSIVE MaxF(_)
\* Math.max(...s) of a non-empty sequence
MaxF(s) == IF Len(s) = 1 THEN s[1]
           ELSE FMax(MaxF(SubSeq(s, 1, Len(s) - 1)), s[Len(s)])

\* Array(n).fill(0)
Zeros(n) == [i \in 1..n |-> 0]

\* sigma += A[i][j] * x[j] for j !== i
Sigma(A, x, i) ==
  SumF([j \in 1..Len(x) |-> IF j = i THEN 0 ELSE FMul(A[i][j], x[j])])

\* a Jacobi sweep, every row computed from the previous sweep's entries,
\* against which C23 is tried
SweepJacobi(A, b, x, i) ==
  [r \in 1..Len(x) |-> FDiv(FSub(b[r], Sigma(A, x, r)), A[r][r])]
RECURSIVE SweepFrom(_, _, _, _)
\* one Gauss-Seidel sweep, rows i..n: x[i] = (b[i] - sigma) / A[i][i],
\* each row using the entries already updated in this sweep
SweepFrom(A, b, x, i) ==
  IF i > Len(x) THEN x
  ELSE SweepFrom(A, b,
                 [x EXCEPT ![i] = FDiv(FSub(b[i], Sigma(A, x, i)), A[i][i])],
                 i + 1)

\* subtract(multiply(A, x), b)
Residual(A, x, b) ==
  [i \in 1..Len(A) |->
     FSub(SumF([j \in 1..Len(x) |-> FMul(A[i][j], x[j])]), b[i])]

RECURSIVE ISqrtIn(_, _, _)
\* the largest s in lo..hi with s * s <= v
ISqrtIn(v, lo, hi) ==
  IF lo >= hi THEN lo
  ELSE LET mid == (lo + hi + 1) \div 2
       IN  IF mid * mid <= v THEN ISqrtIn(v, mid, hi) ELSE ISqrtIn(v, lo, mid - 1)

\* norm(r, 2), rounded down on the grid; large entries are squared in
\* coarser units, and 46340 is the largest root of a sum that fits
Norm2(r) ==
  IF \E i \in 1..Len(r) : IsNaN(r[i]) THEN NaN
  ELSE IF \E i \in 1..Len(r) : IsInf(r[i]) THEN PInf
  ELSE LET c == IF \E i \in 1..Len(r) : AbsInt(r[i]) > 160 * Scale THEN 128
                ELSE IF \E i \in 1..Len(r) : AbsInt(r[i]) > 20 * Scale THEN 8 ELSE 1
           sq == [i \in 1..Len(r) |-> (AbsInt(r[i]) \div c) * (AbsInt(r[i]) \div c)]
           s  == sq[1] + (IF Len(r) >= 2 THEN sq[2] ELSE 0)
                       + (IF Len(r) >= 3 THEN sq[3] ELSE 0)
       IN  Sat(c * ISqrtIn(s, 0, 46340))

\* Math.max(...x.map((xi, i) => Math.abs(xi - xOld[i])))
MaxChange(x, xOld) == MaxF([i \in 1..Len(x) |-> FAbs(FSub(x[i], xOld[i]))])

(*************************** GaussSeidel.jsx *******************************)
GsMsgSquare      == "Matrix A must be square."
GsMsgBLen        == "Vector b length must equal A dimensions."
GsMsgNotDominant == "Matrix A is not diagonally dominant; Gauss-Seidel may diverge."
GsMsgSyntax      == "Syntax error in matrix or vector."

GsMaxIterDefault == 25

\* the dimension tests of parsed: m !== n, bArr.length !== n
GsDimError(Arows, bArr) ==
  IF Len(Arows) # Len(Arows[1]) THEN GsMsgSquare
  ELSE IF Len(bArr) # Len(Arows[1]) THEN GsMsgBLen
  ELSE ""

\* a parse without the dominance hint, against which C6 is tried
GsNoDominanceError(Arows) == ""
\* the diagonal dominance hint of parsed: some row has diag <= offSum
GsDominanceError(Arows) ==
  IF \E i \in 1..Len(Arows) :
        ~FGt(FAbs(Arows[i][i]),
             SumF([j \in 1..Len(Arows) |-> IF j = i THEN 0 ELSE FAbs(Arows[i][j])]))
  THEN GsMsgNotDominant
  ELSE ""

\* parsed (useMemo over amText, bText): {error} or {A, b, n}
GsParsed(amText, bText) ==
  LET Arows == SplitRows(amText)
      bArr  == SplitVectors(bText)[1]
      ok    == [error |-> "", A |-> Arows, b |-> bArr, n |-> Len(Arows)]
  IN  IF Ragged(Arows) THEN [error |-> GsMsgSyntax]
      ELSE IF GsDimError(Arows, bArr) # "" THEN [error |-> GsDimError(Arows, bArr)]
      ELSE IF GsDominanceError(Arows) # "" THEN [error |-> GsDominanceError(Arows)]
      ELSE ok

\* a loop without the residual test, against which C9 is tried
GsNeverBelow(res, tol) == FALSE
\* res < tol : the test that ends runGS's loop
GsResBelow(res, tol) == FLt(res, tol)

GsATexts   == {TxtA3, TxtA2, TxtANoDom, TxtARect, TxtARagged}
GsBTexts   == {TxtB3, TxtB2}
GsTols     == {1, 150}
GsMaxIters == {3, GsMaxIterDefault}

\* the useState defaults
GsInit == [amText |-> TxtA3, bText |-> TxtB3, tol |-> 1,
           maxIter |-> GsMaxIterDefault, rows |-> <<>>, errMsg |-> ""]

\* runGS is not running; last tells how its last call since the inputs
\* were edited ended, and sweeps how many sweeps that call made
GsIdle(last, sweeps) == [pc |-> "idle", last |-> last, sweeps |-> sweeps]
GsAtRest == page = "GaussSeidel" /\ gsRun.pc = "idle"

GsSetAmText(v) == /\ GsAtRest /\ v # gs.amText
                  /\ gs' = [gs EXCEPT !.amText = v] /\ gsRun' = GsIdle("none", 0)
                  /\ UNCHANGED <<calcVars, page, algVars, bisVars, nrVars, linVars, luVars>>
GsSetBText(v) == /\ GsAtRest /\ v # gs.bText
                 /\ gs' = [gs EXCEPT !.bText = v] /\ gsRun' = GsIdle("none", 0)
                 /\ UNCHANGED <<calcVars, page, algVars, bisVars, nrVars, linVars, luVars>>
GsSetTol(v) == /\ GsAtRest /\ v # gs.tol
               /\ gs' = [gs EXCEPT !.tol = v] /\ gsRun' = GsIdle("none", 0)
               /\ UNCHANGED <<calcVars, page, algVars, bisVars, nrVars, linVars, luVars>>
GsSetMaxIter(v) == /\ GsAtRest /\ v # gs.maxIter
                   /\ gs' = [gs EXCEPT !.maxIter = v] /\ gsRun' = GsIdle("none", 0)
                   /\ UNCHANGED <<calcVars, page, algVars, bisVars, nrVars, linVars, luVars>>

\* runGS up to its loop: the refusal on parsed.error, else the initial guess
RunGS ==
  /\ GsAtRest
  /\ LET parsed == GsParsed(gs.amText, gs.bText)
     IN  IF parsed.error # ""
         THEN /\ gs' = [gs EXCEPT !.errMsg = parsed.error]
              /\ gsRun' = GsIdle("refused", 0)
         ELSE IF gs.maxIter < 1
         THEN /\ gs' = [gs EXCEPT !.errMsg = "", !.rows = <<>>]
              /\ gsRun' = GsIdle("ran", 0)
         ELSE /\ gs' = [gs EXCEPT !.errMsg = ""]
              /\ gsRun' = [pc |-> "sweep", last |-> "running", k |-> 1,
                           x |-> Zeros(parsed.n), log |-> <<>>]
  /\ UNCHANGED <<calcVars, page, algVars, bisVars, nrVars, linVars, luVars>>

\* one pass of runGS's loop: the sweep, the residual, the log record, and
\* setRows(log) when the loop ends here (res < tol, or k was maxIter)
GsSweepStep ==
  /\ page = "GaussSeidel" /\ gsRun.pc = "sweep"
  /\ LET parsed == GsParsed(gs.amText, gs.bText)
         k   == gsRun.k
         x   == SweepFrom(parsed.A, parsed.b, gsRun.x, 1)
         res == Norm2(Residual(parsed.A, x, parsed.b))
         log == Append(gsRun.log, [k |-> k, x |-> x, res |-> res])
     IN  IF GsResBelow(res, gs.tol) \/ k + 1 > gs.maxIter
         THEN /\ gs' = [gs EXCEPT !.rows = log]
              /\ gsRun' = GsIdle("ran", k)
         ELSE /\ gs' = gs
              /\ gsRun' = [gsRun EXCEPT !.k = k + 1, !.x = x, !.log = log]
  /\ UNCHANGED <<calcVars, page, algVars, bisVars, nrVars, linVars, luVars>>

(***************************************************************************)
(* mathjs lup / lusolve.  The direct solver works on exact fractions       *)
(* [n, d] (d > 0, lowest terms), so that two ways of solving one system    *)
(* agree exactly when they agree up to rounding; [n |-> 0, d |-> 0] is a   *)
(* value that is not a finite number.                                      *)
(***************************************************************************)
RECURSIVE GCD(_, _)
GCD(a, b) == IF b = 0 THEN a ELSE GCD(b, a % b)

RNaN == [n |-> 0, d |-> 0]
R0   == [n |-> 0, d |-> 1]
R1   == [n |-> 1, d |-> 1]
RBad(a) == a.d = 0
\* the fraction n / d in lowest terms
RMake(n, d) ==
  IF d = 0 THEN RNaN
  ELSE LET g == GCD(AbsInt(n), AbsInt(d))
       IN  IF d < 0 THEN [n |-> (0 - n) \div g, d |-> (0 - d) \div g]
           ELSE [n |-> n \div g, d |-> d \div g]
RAdd(a, b) == IF RBad(a) \/ RBad(b) THEN RNaN ELSE RMake(a.n * b.d + b.n * a.d, a.d * b.d)
RSub(a, b) == IF RBad(a) \/ RBad(b) THEN RNaN ELSE RMake(a.n * b.d - b.n * a.d, a.d * b.d)
RMul(a, b) == IF RBad(a) \/ RBad(b) THEN RNaN ELSE RMake(a.n * b.n, a.d * b.d)
RDiv(a, b) == IF RBad(a) \/ RBad(b) THEN RNaN ELSE RMake(a.n * b.d, a.d * b.n)
RAbs(a) == [n |-> AbsInt(a.n), d |-> a.d]
\* a > b
RGt(a, b) == ~RBad(a) /\ ~RBad(b) /\ a.n * b.d > b.n * a.d
\* the number a grid value stands for, and back (rounded towards zero)
ToR(v) == IF IsGrid(v) THEN RMake(v, Scale) ELSE RNaN
FromR(a) == IF RBad(a) THEN NaN
            ELSE IF a.n < 0 THEN Sat(0 - ((0 - a.n) * Scale) \div a.d)
            ELSE Sat((a.n * Scale) \div a.d)
ToRVec(v) == [i \in 1..Len(v) |-> ToR(v[i])]
ToRMat(A) == [i \in 1..Len(A) |-> ToRVec(A[i])]
FromRVec(v) == [i \in 1..Len(v) |-> FromR(v[i])]

RECURSIVE RSum(_)
RSum(s) == IF s = <<>> THEN R0 ELSE RAdd(RSum(SubSeq(s, 1, Len(s) - 1)), s[Len(s)])

Min(a, b) == IF a < b THEN a ELSE b

RECURSIVE LupUpdate(_, _, _)
\* lup, column j, rows i..n: data[i][j] -= sum over k < min(i, j) of
\* data[i][k] * data[k][j]
LupUpdate(data, j, i) ==
  IF i > Len(data) THEN data
  ELSE LET s == RSum([k \in 1..(Min(i, j) - 1) |-> RMul(data[i][k], data[k][j])])
       IN  LupUpdate([data EXCEPT ![i][j] = RSub(@, s)], j, i + 1)

\* lup's pivot search in column j: the first row from j down whose entry is
\* larger in magnitude than every entry before it (row j when all are zero)
LupPivot(data, j) ==
  IF \A i \in j..Len(data) : data[i][j] = R0 THEN j
  ELSE CHOOSE i \in j..Len(data) :
         /\ \A i2 \in j..Len(data) : ~RGt(RAbs(data[i2][j]), RAbs(data[i][j]))
         /\ \A i2 \in j..(i - 1) : RGt(RAbs(data[i][j]), RAbs(data[i2][j]))

\* rows j and pi exchanged
SwapAt(s, j, pi) == [s EXCEPT ![j] = s[pi], ![pi] = s[j]]

\* lup, column j after the swap: the entries below the diagonal divided
\* by the pivot vjj (an entry equal to zero is left alone)
LupScale(data, j, vjj) ==
  [i \in 1..Len(data) |->
     IF i > j /\ data[i][j] # R0 THEN [data[i] EXCEPT ![j] = RDiv(@, vjj)]
     ELSE data[i]]

RECURSIVE LupColumn(_, _, _)
\* lup, column j once it is updated and its pivot row pi is known: swap the
\* rows (and the permutation), divide, go on with column j + 1
LupSwap(data, p, j, pi) ==
  LupColumn(LupScale(SwapAt(data, j, pi), j, data[pi][j]), SwapAt(p, j, pi), j + 1)

\* lup, column j once it is updated: the pivot search
LupSearch(data, p, j) == LupSwap(data, p, j, LupPivot(data, j))

\* lup's loop over the columns j..n
LupColumn(data, p, j) ==
  IF j > Len(data) THEN [data |-> data, p |-> p]
  ELSE IF j > 1 THEN LupSearch(LupUpdate(data, j, 1), p, j)
  ELSE LupSearch(data, p, j)

\* what lup returns for the reduced data and the row order p: L, U and the
\* vector pv with pv[p[i]] = i, whose entry k is the row of P A that row k
\* of A moved to
LupResult(r) ==
  [L |-> [i \in 1..Len(r.p) |-> [j \in 1..Len(r.p) |->
            IF i > j THEN r.data[i][j] ELSE IF i = j THEN R1 ELSE R0]],
   U |-> [i \in 1..Len(r.p) |-> [j \in 1..Len(r.p) |->
            IF i <= j THEN r.data[i][j] ELSE R0]],
   p |-> [k \in 1..Len(r.p) |-> CHOOSE i \in 1..Len(r.p) : r.p[i] = k]]

\* math.lup(A) of a square matrix: {L, U, p} with P A = L U
Lup(A) == LupResult(LupColumn(A, [i \in 1..Len(A) |-> i], 1))

\* bi / d, with mathjs's shortcut for a zero right-hand side
SolveEntry(bi, d) == IF bi = R0 THEN R0 ELSE RDiv(bi, d)

RECURSIVE LsolveFrom(_, _, _, _)
\* mathjs lsolve: forward substitution, rows i..n
LsolveFrom(L, b, y, i) ==
  IF i > Len(b) THEN y
  ELSE LsolveFrom(L, b,
         [y EXCEPT ![i] = SolveEntry(
            RSub(b[i], RSum([j \in 1..(i - 1) |-> RMul(L[i][j], y[j])])), L[i][i])],
         i + 1)

RECURSIVE UsolveFrom(_, _, _, _)
\* mathjs usolve, row i with its right-hand side bi: it throws when a
\* non-zero bi meets a zero on the diagonal
UsolveRow(U, y, x, i, bi) ==
  IF bi # R0 /\ U[i][i] = R0 THEN [singular |-> TRUE, x |-> x]
  ELSE UsolveFrom(U, y, [x EXCEPT ![i] = SolveEntry(bi, U[i][i])], i - 1)

\* mathjs usolve: backward substitution, rows i..1
UsolveFrom(U, y, x, i) ==
  IF i < 1 THEN [singular |-> FALSE, x |-> x]
  ELSE UsolveRow(U, y, x, i,
         RSub(y[i], RSum([j \in 1..(Len(y) - i) |-> RMul(U[i][i + j], x[i + j])])))

MsgLusolveDim      == "Dimension mismatch. Matrix columns must match vector length."
MsgLusolveSingular == "Linear system cannot be solved since matrix is singular"

\* what lusolve makes of usolve's outcome
LusolveEnd(u) ==
  IF u.singular THEN [kind |-> "throw", msg |-> MsgLusolveSingular]
  ELSE [kind |-> "ok", x |-> u.x]

\* lusolve after lup: the validation of b, the permutation x[p[k]] = b[k],
\* lsolve and usolve
LusolveWith(d, b) ==
  IF Len(b) # Len(d.p) THEN [kind |-> "throw", msg |-> MsgLusolveDim]
  ELSE LusolveEnd(
         UsolveFrom(d.U,
                    LsolveFrom(d.L,
                               [j \in 1..Len(b) |-> b[CHOOSE k \in 1..Len(b) : d.p[k] = j]],
                               [i \in 1..Len(b) |-> R0], 1),
                    [i \in 1..Len(b) |-> R0], Len(b)))

\* math.lusolve(A, b)
lusolve(A, b) == LusolveWith(Lup(A), b)

(*************************** LinearSystems.jsx *****************************)
LinMsgSquare == "Matrix A must be square"
LinMsgRhs    == "Each RHS must match size of A"

LinMaxIterDefault == 100

\* the checks of runExperiment's try block: the message thrown, "" when none
LinCheck(A, Bs) ==
  IF \E i \in 1..Len(A) : Len(A[i]) # Len(A) THEN LinMsgSquare
  ELSE IF \E k \in 1..Len(Bs) : Len(Bs[k]) # Len(A) THEN LinMsgRhs
  ELSE ""

\* diff < tol : the test that returns from gaussSeidel's loop
LinChangeBelow(diff, tol) == FLt(diff, tol)

\* what gaussSeidel returns: {x, iterations: k + 1} from inside the loop,
\* {x, iterations: maxIter} after it
LinGsReturn(x, k, converged, maxIter) ==
  [x |-> x, iterations |-> IF converged THEN k ELSE maxIter]

\* subtract(multiply(A, x), b) for the direct solution, which is exact up to
\* rounding far below the grid
LinDirectResidual(A, x, b) ==
  Norm2([i \in 1..Len(A) |->
           FromR(RSub(RSum([j \in 1..Len(x) |-> RMul(ToR(A[i][j]), x[j])]), ToR(b[i])))])

RECURSIVE SumInt(_)
SumInt(s) == IF s = <<>> THEN 0 ELSE SumInt(SubSeq(s, 1, Len(s) - 1)) + s[Len(s)]

\* the object runExperiment hands to setResults; the per-vector clock
\* readings directTimes and gsTimes are left out, and the average iteration
\* count is kept as an exact fraction
LinResults(A, Bs, calls, directResiduals, td, tg) ==
  LET m     == Len(Bs)
      iters == [k \in 1..m |-> calls[k].result.iterations]
      gsRes == [k \in 1..m |-> Norm2(Residual(A, calls[k].result.x, Bs[k]))]
  IN  [kind |-> "results",
       totalDirectTime |-> td,
       avgDirectResidual |-> FDiv(SumF(directResiduals), Num(m)),
       totalGSTime |-> tg,
       avgGSResidual |-> FDiv(SumF(gsRes), Num(m)),
       avgGSIter |-> RMake(SumInt(iters), m),
       gsIterations |-> iters,
       directResiduals |-> directResiduals,
       gsResiduals |-> gsRes]

LinATexts   == {TxtA3, TxtANoDom, TxtARect}
LinBTexts   == {TxtBs3, TxtBsMixed}
LinTols     == {1, 350, 450}
LinMaxIters == {2, LinMaxIterDefault}

\* the useState defaults (tol 1e-6 is taken as the grid's resolution)
LinInit == [Atext |-> TxtA3, Btext |-> TxtBs3, tol |-> 1,
            maxIter |-> LinMaxIterDefault, results |-> Null, errMsg |-> ""]

\* runExperiment is not running; last tells how its last call since the
\* inputs were edited ended, and calls lists its gaussSeidel calls: the
\* right-hand side, x after every sweep, whether the loop returned on
\* diff < tol, and the value returned
LinIdle(last, calls) == [pc |-> "idle", last |-> last, calls |-> calls]
LinAtRest == page = "LinearSystems" /\ linRun.pc = "idle"

LinSetAtext(v) == /\ LinAtRest /\ v # lin.Atext
                  /\ lin' = [lin EXCEPT !.Atext = v] /\ linRun' = LinIdle("none", <<>>)
                  /\ UNCHANGED <<calcVars, page, algVars, bisVars, nrVars, gsVars, luVars>>
LinSetBtext(v) == /\ LinAtRest /\ v # lin.Btext
                  /\ lin' = [lin EXCEPT !.Btext = v] /\ linRun' = LinIdle("none", <<>>)
                  /\ UNCHANGED <<calcVars, page, algVars, bisVars, nrVars, gsVars, luVars>>
LinSetTol(v) == /\ LinAtRest /\ v # lin.tol
                /\ lin' = [lin EXCEPT !.tol = v] /\ linRun' = LinIdle("none", <<>>)
                /\ UNCHANGED <<calcVars, page, algVars, bisVars, nrVars, gsVars, luVars>>
LinSetMaxIter(v) == /\ LinAtRest /\ v # lin.maxIter
                    /\ lin' = [lin EXCEPT !.maxIter = v] /\ linRun' = LinIdle("none", <<>>)
                    /\ UNCHANGED <<calcVars, page, algVars, bisVars, nrVars, gsVars, luVars>>

\* runExperiment up to the Gauss-Seidel part: the checks, then lusolve for
\* every right-hand side (an exception of lusolve leaves the handler)
RunExperiment ==
  /\ LinAtRest
  /\ LET A   == SplitRows(lin.Atext)
         Bs  == SplitVectors(lin.Btext)
         chk == LinCheck(A, Bs)
         direct == [k \in 1..Len(Bs) |-> lusolve(ToRMat(A), ToRVec(Bs[k]))]
     IN  IF chk # ""
         THEN /\ lin' = [lin EXCEPT !.errMsg = chk]
              /\ linRun' = LinIdle("refused", <<>>)
         ELSE IF \E k \in 1..Len(Bs) : direct[k].kind = "throw"
         THEN /\ lin' = [lin EXCEPT !.errMsg = ""]
              /\ linRun' = LinIdle("threw", <<>>)
         ELSE /\ lin' = [lin EXCEPT !.errMsg = ""]
              /\ linRun' = [pc |-> "gs", last |-> "running", idx |-> 1, k |-> 1,
                            x |-> Zeros(Len(A)), xs |-> <<>>, calls |-> <<>>,
                            directResiduals |->
                              [k \in 1..Len(Bs) |-> LinDirectResidual(A, direct[k].x, Bs[k])]]
  /\ UNCHANGED <<calcVars, page, algVars, bisVars, nrVars, gsVars, luVars>>

\* one pass of gaussSeidel's loop for right-hand side idx; when the call
\* returns, the next call starts or the handler ends with setResults
LinSweepStep ==
  /\ page = "LinearSystems" /\ linRun.pc = "gs"
  /\ LET A    == SplitRows(lin.Atext)
         Bs   == SplitVectors(lin.Btext)
         idx  == linRun.idx
         k    == linRun.k
         none == lin.maxIter < 1
         x    == IF none THEN linRun.x ELSE SweepFrom(A, Bs[idx], linRun.x, 1)
         xs   == IF none THEN <<>> ELSE Append(linRun.xs, x)
         conv == ~none /\ LinChangeBelow(MaxChange(x, linRun.x), lin.tol)
         call == [b |-> Bs[idx], xs |-> xs, converged |-> conv,
                  result |-> LinGsReturn(x, k, conv, lin.maxIter)]
         calls == Append(linRun.calls, call)
     IN  IF ~conv /\ k + 1 <= lin.maxIter
         THEN /\ lin' = lin
              /\ linRun' = [linRun EXCEPT !.k = k + 1, !.x = x, !.xs = xs]
         ELSE IF idx < Len(Bs)
         THEN /\ lin' = lin
              /\ linRun' = [linRun EXCEPT !.idx = idx + 1, !.k = 1,
                              !.x = Zeros(Len(A)), !.xs = <<>>, !.calls = calls]
         ELSE /\ \E td \in Times, tg \in Times :
                   lin' = [lin EXCEPT !.results =
                             LinResults(A, Bs, calls, linRun.directResiduals, td, tg)]
              /\ linRun' = LinIdle("ran", calls)
  /\ UNCHANGED <<calcVars, page, algVars, bisVars, nrVars, gsVars, luVars>>

(*************************** LuDecomposition *******************************)
LuMsgSquare        == "Factorisation failed: Matrix must be square"
LuMsgFactDim       == "Factorisation failed: Dimension mismatch (1 != 2)"
LuMsgFirst         == "Factorise A first"
LuMsgSolveDim      == "Solve failed: Dimension mismatch. Matrix columns must match vector length."
LuMsgSolveSingular == "Solve failed: Linear system cannot be solved since matrix is singular"

\* a factorize without its check, against which C8 is tried
LuAnyShape(rows) == FALSE
\* factorize's own check: A.size()[1] !== n
LuNotSquare(rows) == Len(rows[1]) # Len(rows)

RECURSIVE ForwardFrom(_, _, _, _)
\* forwardSub, rows i..n: y[i] = (Pb[i] - sum of L[i][j] * y[j]) / L[i][i]
ForwardFrom(L, Pb, y, i) ==
  IF i > Len(Pb) THEN y
  ELSE ForwardFrom(L, Pb,
         [y EXCEPT ![i] = RDiv(RSub(Pb[i], RSum([j \in 1..(i - 1) |-> RMul(L[i][j], y[j])])),
                               L[i][i])],
         i + 1)
forwardSub(L, Pb) == ForwardFrom(L, Pb, [i \in 1..Len(Pb) |-> R0], 1)

RECURSIVE BackFrom(_, _, _, _)
\* backSub, rows i..1: x[i] = (y[i] - sum of U[i][j] * x[j]) / U[i][i]
BackFrom(U, y, x, i) ==
  IF i < 1 THEN x
  ELSE BackFrom(U, y,
         [x EXCEPT ![i] = RDiv(RSub(y[i], RSum([j \in 1..(Len(y) - i) |-> RMul(U[i][i + j], x[i + j])])),
                               U[i][i])],
         i - 1)
backSub(U, y) == BackFrom(U, y, [i \in 1..Len(y) |-> R0], Len(y))

\* solve's permutation of a right-hand side: LU.p.map(idx => b.get([idx]))
LuPermute(p, b) == [i \in 1..Len(p) |-> b[p[i]]]

\* a solve from the matrix text as it is now, against which C30 is tried
LuFreshSolve(LU, b) ==
  IF Ragged(SplitRows(lu.Atext)) \/ LuNotSquare(SplitRows(lu.Atext))
     \/ Len(SplitRows(lu.Atext)) # Len(b)
  THEN backSub(LU.U, forwardSub(LU.L, LuPermute(LU.p, b)))
  ELSE backSub(Lup(ToRMat(SplitRows(lu.Atext))).U,
               forwardSub(Lup(ToRMat(SplitRows(lu.Atext))).L,
                          LuPermute(Lup(ToRMat(SplitRows(lu.Atext))).p, b)))
\* solve's cached path for one right-hand side
LuCachedSolve(LU, b) == backSub(LU.U, forwardSub(LU.L, LuPermute(LU.p, b)))

LuATexts == {TxtA3, TxtACycle, TxtASwap, TxtASing, TxtARect, TxtARagged}
LuBTexts == {TxtBsLu, TxtB2, TxtBsMixed}

\* the useState defaults
LuInit == [Atext |-> TxtA3, btext |-> TxtBsLu, err |-> "", LU |-> Null,
           solveData |-> Null]

\* the last handler call since the inputs were edited: which handler, how
\* it ended, how many times lup ran in it, how many substitution passes ran,
\* and what lusolve returned for each right-hand side
LuNone == [op |-> "none", last |-> "none", lups |-> 0, subs |-> 0, direct |-> <<>>]
LuRan(op, last, lups, subs, direct) ==
  [op |-> op, last |-> last, lups |-> lups, subs |-> subs, direct |-> direct]

LuSetAtext(v) == /\ page = "LuDecomposition" /\ v # lu.Atext
                 /\ lu' = [lu EXCEPT !.Atext = v] /\ luRun' = LuNone
                 /\ UNCHANGED <<calcVars, page, algVars, bisVars, nrVars, gsVars, linVars>>
LuSetBtext(v) == /\ page = "LuDecomposition" /\ v # lu.btext
                 /\ lu' = [lu EXCEPT !.btext = v] /\ luRun' = LuNone
                 /\ UNCHANGED <<calcVars, page, algVars, bisVars, nrVars, gsVars, linVars>>

\* factorize
LuFactorize ==
  /\ page = "LuDecomposition"
  /\ LET rows == SplitRows(lu.Atext)
         A    == ToRMat(rows)
         d    == Lup(A)
     IN  IF Ragged(rows)
         THEN /\ lu' = [lu EXCEPT !.err = LuMsgFactDim, !.LU = Null]
              /\ luRun' = LuRan("factorize", "failed", 0, 0, <<>>)
         ELSE IF LuNotSquare(rows)
         THEN /\ lu' = [lu EXCEPT !.err = LuMsgSquare, !.LU = Null]
              /\ luRun' = LuRan("factorize", "failed", 0, 0, <<>>)
         ELSE /\ lu' = [lu EXCEPT !.err = "", !.solveData = Null,
                          !.LU = [kind |-> "LU", A |-> A, L |-> d.L, U |-> d.U, p |-> d.p]]
              /\ luRun' = LuRan("factorize", "done", 1, 0, <<>>)
  /\ UNCHANGED <<calcVars, page, algVars, bisVars, nrVars, gsVars, linVars>>

\* solve
LuSolve ==
  /\ page = "LuDecomposition"
  /\ IF lu.LU = Null
     THEN /\ lu' = [lu EXCEPT !.err = LuMsgFirst]
          /\ luRun' = LuRan("solve", "refused", 0, 0, <<>>)
     ELSE LET rhsBlocks == [k \in 1..Len(SplitVectors(lu.btext)) |->
                              ToRVec(SplitVectors(lu.btext)[k])]
              m      == Len(rhsBlocks)
              direct == [k \in 1..m |-> lusolve(lu.LU.A, rhsBlocks[k])]
              thrown == {k \in 1..m : direct[k].kind = "throw"}
              first  == CHOOSE k \in thrown : \A k2 \in thrown : k <= k2
          IN  IF thrown # {}
              THEN /\ lu' = [lu EXCEPT !.err =
                               IF direct[first].msg = MsgLusolveDim
                               THEN LuMsgSolveDim ELSE LuMsgSolveSingular]
                   /\ luRun' = LuRan("solve", "failed", first, 2 * (first - 1), <<>>)
              ELSE /\ \E td \in Times, tc \in Times :
                        lu' = [lu EXCEPT !.err = "", !.solveData =
                                 [kind |-> "solveData", directMs |-> td, cachedMs |-> tc,
                                  solutions |-> [k \in 1..m |->
                                                   LuCachedSolve(lu.LU, rhsBlocks[k])]]]
                   /\ luRun' = LuRan("solve", "solved", m, 4 * m,
                                     [k \in 1..m |-> direct[k].x])
  /\ UNCHANGED <<calcVars, page, algVars, bisVars, nrVars, gsVars, linVars>>
\*END-LINEAR-PAGES


\*CALCULUS-PAGES
(*************************** SimpsonsRule.jsx ******************************)
(* The number inputs hand strings to the setters and every use goes        *)
(* through Number(): a, b and n are kept here as the numbers read back.    *)
(* simpRun records what the last click on Execute did (history).           *)
SimpMsgSyntax   == "Syntax error in f(x)"
SimpMsgInterval == "a and b must be finite with a < b"
SimpMsgEven     == "n must be a positive even integer"

SimpNDefault == 10

\* Number.isInteger
IsInteger(v) == IsGrid(v) /\ v % Scale = 0

\* the test on nn of the validation effect that lets n through
SimpAnyN(nn) == TRUE
SimpEvenN(nn) == IsInteger(nn) /\ nn > 0 /\ (nn \div Scale) % 2 = 0

\* the validation effect on [compiled, a, b, n]: the banner after a render
SimpErrMsg(fn, aa, bb, nn) ==
  IF ~Compiles(fn) THEN SimpMsgSyntax
  ELSE IF ~IsFinite(aa) \/ ~IsFinite(bb) \/ ~FLt(aa, bb) THEN SimpMsgInterval
  ELSE IF ~SimpEvenN(nn) THEN SimpMsgEven
  ELSE ""

\* i % 2 === 0 ? 2 : 4
SimpAllFour(i) == 4
SimpWeight(i) == IF i % 2 = 0 THEN 2 ELSE 4

RECURSIVE SimpLoop(_, _, _, _, _, _, _)
\* the loop of runSimpson from index i on (nn counts the sub-intervals)
SimpLoop(fn, aa, h, nn, i, sum, rows) ==
  IF i >= nn THEN [sum |-> sum, rows |-> rows]
  ELSE SimpLoop(fn, aa, h, nn, i + 1,
                FAdd(sum, FMul(Num(SimpWeight(i)), F(fn, FAdd(aa, FMul(Num(i), h))))),
                Append(rows, [i |-> i, x |-> FAdd(aa, FMul(Num(i), h)),
                              fx |-> F(fn, FAdd(aa, FMul(Num(i), h))),
                              weight |-> SimpWeight(i)]))

\* what runSimpson hands to setResult
SimpResult(fn, aa, bb, nn, h, end) ==
  [integral |-> FMul(FDiv(h, Num(3)), end.sum),
   rows |-> Append(end.rows, [i |-> nn, x |-> bb, fx |-> F(fn, bb)]),
   h |-> h]

SimpFuncs == {FnSin, FnSq, FnRecip, FnUndef, FnBad}
SimpAs    == {Num(0), Num(1)}
SimpBs    == {Pi, Num(1), Num(2)}
SimpNs    == {Num(SimpNDefault), Num(2), Num(4), Num(3), 0, Num(0 - 2), (5 * Scale) \div 2}

\* useState defaults, after the first validation effect
SimpInit == [fx |-> FnSin, a |-> Num(0), b |-> Pi, n |-> Num(SimpNDefault),
             errMsg |-> SimpErrMsg(FnSin, Num(0), Pi, Num(SimpNDefault)),
             result |-> Null]

SimpAtRest == page = "SimpsonsRule"

\* a setter, the render after it and the validation effect; with an empty
\* banner the render samples f for the plot, and a throwing f ends it
SimpEdit(new) ==
  /\ SimpAtRest
  /\ LET msg == SimpErrMsg(new.fx, new.a, new.b, new.n)
     IN  /\ simp' = [new EXCEPT !.errMsg = msg]
         /\ page' = IF msg = "" /\ Throws(new.fx, new.a) THEN Crashed ELSE page
  /\ simpRun' = NoCall
  /\ UNCHANGED <<rootVars, linearVars, ndVars, opt, odeVars>>

SimpSetFx(v) == SimpEdit([simp EXCEPT !.fx = v])
SimpSetA(v)  == SimpEdit([simp EXCEPT !.a = v])
SimpSetB(v)  == SimpEdit([simp EXCEPT !.b = v])
SimpSetN(v)  == SimpEdit([simp EXCEPT !.n = v])

\* runSimpson
RunSimpson ==
  /\ SimpAtRest
  /\ LET h  == FDiv(FSub(simp.b, simp.a), simp.n)
         nn == simp.n \div Scale
     IN  IF simp.errMsg # ""
         THEN /\ simp' = simp
              /\ simpRun' = [kind |-> "refused"]
         ELSE /\ simp' = [simp EXCEPT !.result =
                            SimpResult(simp.fx, simp.a, simp.b, nn, h,
                              SimpLoop(simp.fx, simp.a, h, nn, 1,
                                       FAdd(F(simp.fx, simp.a), F(simp.fx, simp.b)),
                                       <<[i |-> 0, x |-> simp.a, fx |-> F(simp.fx, simp.a)]>>))]
              /\ simpRun' = [kind |-> "ran", n |-> nn]
  /\ UNCHANGED <<page, rootVars, linearVars, ndVars, opt, odeVars>>

(******************************* NumDiff.jsx ********************************)
(* ndRun records what the last click on Run did (history): "refused",      *)
(* "ran", or "threw" when an exception left handleRun.                     *)
NdMsgInvalid == "Invalid function"

\* compiled: compile(fx) and derivative(fx, 'x').compile() both succeed
NdCompiled(fn) == Compiles(fn) /\ DfCompiles(fn)

\* hs = [1e-1, ..., 1e-6], each by its exponent k: h = 10^-k
NdHs == <<1, 2, 3, 4, 5, 6>>
\* the step sizes that are on the grid
NdH(k) == IF k = 1 THEN Milli(100) ELSE IF k = 2 THEN Milli(10) ELSE Milli(1)

\* the difference quotients; for a step below the grid's resolution the
\* quotient is the derivative to within that resolution
NdFwd(fn, x, k) ==
  IF k <= 3 THEN FDiv(FSub(F(fn, FAdd(x, NdH(k))), F(fn, x)), NdH(k)) ELSE AlgDf(fn, x)
NdBack(fn, x, k) ==
  IF k <= 3 THEN FDiv(FSub(F(fn, x), F(fn, FSub(x, NdH(k)))), NdH(k)) ELSE AlgDf(fn, x)
NdCtr(fn, x, k) ==
  IF k <= 3 THEN FDiv(FSub(F(fn, FAdd(x, NdH(k))), F(fn, FSub(x, NdH(k)))),
                      FMul(Num(2), NdH(k)))
  ELSE AlgDf(fn, x)

\* one row of handleRun's table
NdRow(k, fwd, back, ctr, exact) ==
  [h |-> k, fwd |-> fwd, back |-> back, ctr |-> ctr,
   efwd |-> FAbs(FSub(fwd, exact)), eback |-> FAbs(FSub(back, exact)),
   ectr |-> FAbs(FSub(ctr, exact))]
NdRows(fn, x) ==
  [i \in 1..Len(NdHs) |->
     NdRow(NdHs[i], NdFwd(fn, x, NdHs[i]), NdBack(fn, x, NdHs[i]), NdCtr(fn, x, NdHs[i]),
           DF(fn, x))]

NdFuncs == {FnSin, FnSq, FnUndef, FnBad}
NdX0s   == {Num(1), 0, Num(2)}

NdInit == [fx |-> FnSin, x0 |-> Num(1), errMsg |-> "", results |-> <<>>]

NdSetFx(v) ==
  /\ page = "NumDiff"
  /\ nd' = [nd EXCEPT !.fx = v, !.errMsg = IF NdCompiled(v) THEN "" ELSE NdMsgInvalid]
  /\ ndRun' = NoCall
  /\ UNCHANGED <<page, rootVars, linearVars, simpVars, opt, odeVars>>
NdSetX0(v) ==
  /\ page = "NumDiff"
  /\ nd' = [nd EXCEPT !.x0 = v]
  /\ ndRun' = NoCall
  /\ UNCHANGED <<page, rootVars, linearVars, simpVars, opt, odeVars>>

\* handleRun: f and df are called with no try around them
NdHandleRun ==
  /\ page = "NumDiff"
  /\ IF ~NdCompiled(nd.fx)
     THEN nd' = nd /\ ndRun' = [kind |-> "refused"]
     ELSE IF Throws(nd.fx, nd.x0)
     THEN nd' = nd /\ ndRun' = [kind |-> "threw"]
     ELSE /\ nd' = [nd EXCEPT !.results = NdRows(nd.fx, nd.x0)]
          /\ ndRun' = [kind |-> "ran"]
  /\ UNCHANGED <<page, rootVars, linearVars, simpVars, opt, odeVars>>

(********************* ScalarOptimization (part_004) ***********************)
(* The page has no run button: scalarSteps and multiSteps are memos that   *)
(* every render recomputes from the inputs, so a setter and the render     *)
(* after it are one action.  opt.scalar and opt.multi hold the memos'      *)
(* values (steps) together with history: the number of evaluations of f    *)
(* and, when an exception ended the loop in the catch, the iteration it    *)
(* was thrown in and the records that had been pushed by then.             *)
GoldenCap == 120
OptMaxIterDefault == 80

\* (Math.sqrt(5) - 1) / 2
Phi == Milli(618)

FxyEnergy == "(v-55)^2 + (m-8)^2 + 300"
FxyBad    == "(v-55)^2 + "

\* evaluate(fxy, {v, m})
F2(fxy, v, m) ==
  IF fxy = FxyEnergy
  THEN FAdd(FAdd(FMul(FSub(v, Num(55)), FSub(v, Num(55))),
                 FMul(FSub(m, Num(8)), FSub(m, Num(8)))), Num(300))
  ELSE NaN
\* derivative(fxy, 'v') and derivative(fxy, 'm'), evaluated
DfDv(fxy, v, m) == IF fxy = FxyEnergy THEN FMul(Num(2), FSub(v, Num(55)))
                   ELSE NaN
DfDm(fxy, v, m) == IF fxy = FxyEnergy THEN FMul(Num(2), FSub(m, Num(8)))
                   ELSE NaN

\* the interior points c = bb - phi (bb - aa) and d = aa + phi (bb - aa)
GoldenC(aa, bb) == FSub(bb, FMul(Phi, FSub(bb, aa)))
GoldenD(aa, bb) == FAdd(aa, FMul(Phi, FSub(bb, aa)))

\* what the memo returns from its try, and from its catch
GoldenReturn(log, evals) ==
  [steps |-> log, evals |-> evals, threwAt |-> 0, pushed |-> log]
GoldenCatch(log, evals) ==
  [steps |-> <<>>, evals |-> evals, threwAt |-> Len(log) + 1, pushed |-> log]

\* the comparison turned round, against which C24 is tried
GoldenKeepsRight(fn, c, d) == FLt(F(fn, d), F(fn, c))
\* if (f(c) < f(d)) bb = d else aa = c
GoldenKeepsLeft(fn, c, d) == FLt(F(fn, c), F(fn, d))

RECURSIVE GoldenLoop(_, _, _, _, _, _, _, _)
\* the end of an iteration: c and d are computed anew and the record pushed
GoldenPush(fn, aa, bb, tol, log, evals) ==
  GoldenLoop(fn, aa, bb, GoldenC(aa, bb), GoldenD(aa, bb), tol,
             Append(log, [i |-> Len(log) + 1, a |-> aa, b |-> bb, len |-> FSub(bb, aa)]),
             evals)
\* the while loop of scalarSteps from its test on
GoldenLoop(fn, aa, bb, c, d, tol, log, evals) ==
  IF ~(FGt(FAbs(FSub(bb, aa)), tol) /\ Len(log) < GoldenCap)
  THEN GoldenReturn(log, evals)
  ELSE IF ~Compiles(fn) \/ Throws(fn, c) THEN GoldenCatch(log, evals + 1)
  ELSE IF Throws(fn, d) THEN GoldenCatch(log, evals + 2)
  ELSE IF GoldenKeepsLeft(fn, c, d)
  THEN GoldenPush(fn, aa, d, tol, log, evals + 2)
  ELSE GoldenPush(fn, c, bb, tol, log, evals + 2)

\* scalarSteps
scalarSteps(fn, aa, bb, tol) ==
  IF ~FLt(aa, bb) THEN GoldenReturn(<<>>, 0)
  ELSE GoldenLoop(fn, aa, bb, GoldenC(aa, bb), GoldenD(aa, bb), tol, <<>>, 0)

\* a test that any step passes, against which C25 is tried
MultiAnyBelow(v, m, vNext, mNext, tol) == TRUE
\* Math.hypot(vNext - v, mNext - m) < tol
MultiBelow(v, m, vNext, mNext, tol) ==
  FLt(Norm2(<<FSub(vNext, v), FSub(mNext, m)>>), tol)

RECURSIVE MultiLoop(_, _, _, _, _, _, _, _)
\* the record of iteration k and the test that ends the loop
MultiPush(fxy, v, m, vNext, mNext, alpha, maxIter, tol, k, log) ==
  IF MultiBelow(v, m, vNext, mNext, tol)
  THEN Append(log, [k |-> k, v |-> vNext, m |-> mNext, f |-> F2(fxy, vNext, mNext)])
  ELSE MultiLoop(fxy, vNext, mNext, alpha, maxIter, tol, k + 1,
                 Append(log, [k |-> k, v |-> vNext, m |-> mNext,
                              f |-> F2(fxy, vNext, mNext)]))
\* the for loop of multiSteps from iteration k on
MultiLoop(fxy, v, m, alpha, maxIter, tol, k, log) ==
  IF k > maxIter THEN log
  ELSE MultiPush(fxy, v, m, FSub(v, FMul(alpha, DfDv(fxy, v, m))),
                 FSub(m, FMul(alpha, DfDm(fxy, v, m))), alpha, maxIter, tol, k, log)

\* multiSteps: derivative() throws on an expression that does not parse
multiSteps(fxy, v, m, alpha, maxIter, tol) ==
  IF fxy = FxyBad THEN <<>> ELSE MultiLoop(fxy, v, m, alpha, maxIter, tol, 1, <<>>)

OptFuncs    == {FnCost, FnCondUndef, FnBad}
OptAs       == {Num(0), Num(10)}
OptBs       == {Num(60), Num(1)}
OptTols     == {Milli(1), Num(20), PTiny}
OptFxys     == {FxyEnergy, FxyBad}
OptX0s      == {Num(40), Num(55)}
OptY0s      == {Num(5), Num(8)}
OptAlphas   == {Milli(100), Milli(500)}
OptMaxIters == {OptMaxIterDefault, 3}

\* the memos: each is computed anew when one of its inputs has changed
OptScalarMemo(in) == [in EXCEPT !.scalar = scalarSteps(in.fx, in.a, in.b, in.tol)]
OptMultiMemo(in) ==
  [in EXCEPT !.multi = multiSteps(in.fxy, in.x0, in.y0, in.alpha, in.maxIter, in.tol)]

\* useState defaults, after the first render
OptInit ==
  OptMultiMemo(OptScalarMemo(
    [mode |-> "scalar", fx |-> FnCost, a |-> Num(0), b |-> Num(60), tol |-> Milli(1),
     fxy |-> FxyEnergy, x0 |-> Num(40), y0 |-> Num(5), alpha |-> Milli(100),
     maxIter |-> OptMaxIterDefault, scalar |-> Null, multi |-> Null]))

\* a setter of the inputs shown in the given mode, and the render after it
OptEdit(mode, new) ==
  /\ page = "ScalarOptimization" /\ opt.mode = mode
  /\ opt' = new
  /\ UNCHANGED <<page, rootVars, linearVars, simpVars, ndVars, odeVars>>

OptSetMode(v)    == OptEdit(opt.mode, [opt EXCEPT !.mode = v])
OptSetFx(v)      == OptEdit("scalar", OptScalarMemo([opt EXCEPT !.fx = v]))
OptSetA(v)       == OptEdit("scalar", OptScalarMemo([opt EXCEPT !.a = v]))
OptSetB(v)       == OptEdit("scalar", OptScalarMemo([opt EXCEPT !.b = v]))
OptSetTol(v)     == OptEdit("scalar", OptMultiMemo(OptScalarMemo([opt EXCEPT !.tol = v])))
OptSetFxy(v)     == OptEdit("multi", OptMultiMemo([opt EXCEPT !.fxy = v]))
OptSetX0(v)      == OptEdit("multi", OptMultiMemo([opt EXCEPT !.x0 = v]))
OptSetY0(v)      == OptEdit("multi", OptMultiMemo([opt EXCEPT !.y0 = v]))
OptSetAlpha(v)   == OptEdit("multi", OptMultiMemo([opt EXCEPT !.alpha = v]))
OptSetMaxIter(v) == OptEdit("multi", OptMultiMemo([opt EXCEPT !.maxIter = v]))


(************************ ODEsComparison (part_004) ************************)
(* The page has no input fields: odeStr, t0, y0 and t1 keep their defaults *)
(* and handleRun passes h = 0.005, 0.02 and 0.05.  The steppers are        *)
(* closures over t0, y0 and t1 with h as their parameter; ode.hs holds the *)
(* three step sizes a run passes, so that the steppers can be run on       *)
(* other inputs than the page's.  One action is one iteration of a         *)
(* stepper's loop; odeRun holds the stepper's locals, the number of        *)
(* iterations so far and the values the earlier steppers returned.         *)
OdeT0Default == 0
OdeT1Default == 2
OdeMaxSteps  == 401

\* the double the source's literal division p / q gives
Coef(p, q) == (p * Scale) \div q

\* Math.exp on [0, 1): 1 + x (1 + x/2 (1 + x/3 (1 + x/4 (1 + x/5 (1 + x/6)))))
ExpR(x) ==
  LET t6 == FAdd(Num(1), FDiv(x, Num(6)))
      t5 == FAdd(Num(1), FMul(FDiv(x, Num(5)), t6))
      t4 == FAdd(Num(1), FMul(FDiv(x, Num(4)), t5))
      t3 == FAdd(Num(1), FMul(FDiv(x, Num(3)), t4))
      t2 == FAdd(Num(1), FMul(FDiv(x, Num(2)), t3))
  IN  FAdd(Num(1), FMul(x, t2))
RECURSIVE Exp(_)
\* Math.exp, brought to [0, 1) by e^x = e * e^(x - 1)
Exp(x) == IF IsNaN(x) THEN NaN
          ELSE IF x = PInf THEN PInf
          ELSE IF x = NInf THEN 0
          ELSE IF IsTiny(x) THEN Num(1)
          ELSE IF x < 0 THEN FDiv(Num(1), Exp(0 - x))
          ELSE IF x >= Num(1) THEN FMul(Milli(2718), Exp(x - Num(1)))
          ELSE ExpR(x)

\* rhs: f.evaluate({t, y}) for odeStr = 'y - t^2 + 1'
rhs(t, y) == FAdd(FSub(y, FMul(t, t)), Num(1))
\* yExact
yExact(t) == FSub(FMul(FAdd(t, Num(1)), FAdd(t, Num(1))), FMul(Milli(500), Exp(t)))

\* the loop condition of the steppers: t < t1 - 1e-12.  up says that t is
\* the double next above the grid value held in t.
OdeGoOn(t, up, t1) == ~up /\ FLt(t, FSub(t1, PTiny))
\* if (t + h > t1) h = t1 - t
OdeNoClip(t, h, t1) == h
OdeClip(t, h, t1) == IF FGt(FAdd(t, h), t1) THEN FSub(t1, t) ELSE h
\* t + (t1 - t) in doubles is t1 or a neighbour of t1;
\* 0.48 + (5.3 - 0.48) is 5.300000000000001, the double next above 5.3
ClipRoundsUp(t, t1) == t = Milli(480) /\ t1 = Milli(5300)

\* the new y of one iteration of rk23
Rk23K3(t, y, h, k1, k2, k3) ==
  FAdd(y, FAdd(FAdd(FMul(FMul(Coef(2, 9), h), k1), FMul(FMul(Coef(1, 3), h), k2)),
               FMul(FMul(Coef(4, 9), h), k3)))
Rk23K2(t, y, h, k1, k2) ==
  Rk23K3(t, y, h, k1, k2,
         rhs(FAdd(t, FMul(Milli(750), h)), FAdd(y, FMul(FMul(Milli(750), h), k2))))
Rk23K1(t, y, h, k1) ==
  Rk23K2(t, y, h, k1,
         rhs(FAdd(t, FMul(Milli(500), h)), FAdd(y, FMul(FMul(Milli(500), h), k1))))
rk23(t, y, h) == Rk23K1(t, y, h, rhs(t, y))

\* the new y of one iteration of rk45
Rk45K6(t, y, h, k1, k3, k4, k5, k6) ==
  FAdd(y, FMul(h, FAdd(FSub(FAdd(FAdd(FMul(Coef(35, 384), k1),
                                       FMul(Coef(500, 1113), k3)),
                                  FMul(Coef(125, 192), k4)),
                             FMul(Coef(2187, 6784), k5)),
                        FMul(Coef(11, 84), k6))))
Rk45K5(t, y, h, k1, k2, k3, k4, k5) ==
  Rk45K6(t, y, h, k1, k3, k4, k5,
         rhs(FAdd(t, h),
             FAdd(y, FMul(h, FSub(FAdd(FAdd(FSub(FMul(Coef(9017, 3168), k1),
                                                  FMul(Coef(355, 33), k2)),
                                             FMul(Coef(46732, 5247), k3)),
                                        FMul(Coef(49, 176), k4)),
                                   FMul(Coef(5103, 18656), k5))))))
Rk45K4(t, y, h, k1, k2, k3, k4) ==
  Rk45K5(t, y, h, k1, k2, k3, k4,
         rhs(FAdd(t, FDiv(FMul(h, Num(8)), Num(9))),
             FAdd(y, FMul(h, FSub(FAdd(FSub(FMul(Coef(19372, 6561), k1),
                                             FMul(Coef(25360, 2187), k2)),
                                        FMul(Coef(64448, 6561), k3)),
                                   FMul(Coef(212, 729), k4))))))
Rk45K3(t, y, h, k1, k2, k3) ==
  Rk45K4(t, y, h, k1, k2, k3,
         rhs(FAdd(t, FMul(h, Milli(800))),
             FAdd(y, FMul(h, FAdd(FSub(FMul(Coef(44, 45), k1), FMul(Coef(56, 15), k2)),
                                   FMul(Coef(32, 9), k3))))))
Rk45K2(t, y, h, k1, k2) ==
  Rk45K3(t, y, h, k1, k2,
         rhs(FAdd(t, FMul(h, Milli(300))),
             FAdd(y, FMul(h, FAdd(FMul(Coef(3, 40), k1), FMul(Coef(9, 40), k2))))))
Rk45K1(t, y, h, k1) ==
  Rk45K2(t, y, h, k1,
         rhs(FAdd(t, FMul(h, Milli(200))), FAdd(y, FMul(FMul(h, Milli(200)), k1))))
rk45(t, y, h) == Rk45K1(t, y, h, rhs(t, y))

\* one RK4 step of width h2 from (t, y): y + (h2/6) (k1 + 2 k2 + 2 k3 + k4)
Rk4K4(y, h2, k1, k2, k3, k4) ==
  FAdd(y, FMul(FDiv(h2, Num(6)),
               FAdd(FAdd(FAdd(k1, FMul(Num(2), k2)), FMul(Num(2), k3)), k4)))
Rk4K3(tEnd, y, h2, k1, k2, k3) ==
  Rk4K4(y, h2, k1, k2, k3, rhs(tEnd, FAdd(y, FMul(h2, k3))))
Rk4K2(tMid, tEnd, y, h2, k1, k2) ==
  Rk4K3(tEnd, y, h2, k1, k2, rhs(tMid, FAdd(y, FMul(FMul(Milli(500), h2), k2))))
Rk4K1(tMid, tEnd, y, h2, k1) ==
  Rk4K2(tMid, tEnd, y, h2, k1, rhs(tMid, FAdd(y, FMul(FMul(Milli(500), h2), k1))))
\* the second half-step of dop853, from yHalf at t + h2 to t + h
Dop853Half(t, yHalf, h, h2) ==
  Rk4K1(FAdd(FAdd(t, h2), FMul(Milli(500), h2)), FAdd(t, h), yHalf, h2,
        rhs(FAdd(t, h2), yHalf))
\* the new y of one iteration of dop853: two RK4 half-steps
dop853(t, y, h) ==
  Dop853Half(t, Rk4K1(FAdd(t, FMul(Milli(500), FDiv(h, Num(2)))), FAdd(t, FDiv(h, Num(2))),
                      y, FDiv(h, Num(2)), rhs(t, y)),
             h, FDiv(h, Num(2)))

OdeMethods == <<"rk23", "rk45", "dop853">>
OdeLabels == <<"RK23", "RK45", "DOP853">>
\* fevals += 3, 6, 8
OdeEvals == <<3, 6, 8>>
\* the step sizes handleRun passes to rk23, rk45 and dop853
OdeHsDefault == <<Milli(5), Milli(20), Milli(50)>>

OdeInit == [odeStr |-> "y - t^2 + 1", t0 |-> Num(OdeT0Default), y0 |-> Milli(500),
            t1 |-> Num(OdeT1Default), hs |-> OdeHsDefault, results |-> Null]

\* the locals of stepper k at its first loop test
OdeStart(k, sols) ==
  [pc |-> OdeMethods[k], k |-> k, t |-> ode.t0, up |-> FALSE, y |-> ode.y0,
   h |-> ode.hs[k], fevals |-> 0, steps |-> 0, sols |-> sols]

\* the rows handleRun builds from what the steppers returned
OdeRows(sols, yTrue) ==
  [k \in 1..3 |-> [method |-> OdeLabels[k],
                   error |-> FAbs(FSub(sols[k].y, yTrue)),
                   fevals |-> sols[k].fevals,
                   time |-> sols[k].ms]]

\* handleRun up to the first stepper's loop
OdeHandleRun ==
  /\ page = "ODEs" /\ odeRun.pc = "idle"
  /\ odeRun' = OdeStart(1, <<>>)
  /\ ode' = ode
  /\ UNCHANGED <<page, rootVars, linearVars, simpVars, ndVars, opt>>

\* one iteration of stepper k's loop; or its return, followed by the start of
\* the next stepper or by the rest of handleRun
OdeLoop(k, newY) ==
  /\ page = "ODEs" /\ odeRun.pc = OdeMethods[k]
  /\ IF OdeGoOn(odeRun.t, odeRun.up, ode.t1)
     THEN /\ odeRun.steps < OdeMaxSteps
          /\ odeRun' = [odeRun EXCEPT
                          !.h = OdeClip(odeRun.t, odeRun.h, ode.t1),
                          !.y = newY,
                          !.t = FAdd(odeRun.t, OdeClip(odeRun.t, odeRun.h, ode.t1)),
                          !.up = /\ OdeClip(odeRun.t, odeRun.h, ode.t1) # odeRun.h
                                 /\ ClipRoundsUp(odeRun.t, ode.t1),
                          !.fevals = @ + OdeEvals[k],
                          !.steps = @ + 1]
          /\ ode' = ode
     ELSE \E ms \in Times :
            IF k < 3
            THEN /\ odeRun' = OdeStart(k + 1, Append(odeRun.sols,
                                 [y |-> odeRun.y, fevals |-> odeRun.fevals, ms |-> ms]))
                 /\ ode' = ode
            ELSE /\ odeRun' = Idle
                 /\ ode' = [ode EXCEPT !.results =
                              [rows |-> OdeRows(Append(odeRun.sols,
                                 [y |-> odeRun.y, fevals |-> odeRun.fevals, ms |-> ms]),
                                 yExact(ode.t1))]]
  /\ UNCHANGED <<page, rootVars, linearVars, simpVars, ndVars, opt>>

Rk23Step   == OdeLoop(1, rk23(odeRun.t, odeRun.y, OdeClip(odeRun.t, odeRun.h, ode.t1)))
Rk45Step   == OdeLoop(2, rk45(odeRun.t, odeRun.y, OdeClip(odeRun.t, odeRun.h, ode.t1)))
Dop853Step == OdeLoop(3, dop853(odeRun.t, odeRun.y, OdeClip(odeRun.t, odeRun.h, ode.t1)))

\*END-CALCULUS-PAGES

\* a page's "Back to Menu": the page is unmounted and its state is dropped
BackToMenu == /\ page \notin {"Menu", Crashed}
              /\ algRun.pc = "idle" /\ bisRun.pc = "idle" /\ gsRun.pc = "idle"
              /\ linRun.pc = "idle" /\ odeRun.pc = "idle"
              /\ page' = "Menu"
              /\ alg' = AlgInit /\ algRun' = Idle /\ algCalls' = AlgNoCalls
              /\ bis' = BisInit /\ bisRun' = BisIdle("none")
              /\ nr' = NrInit /\ nrRun' = NoCall
              /\ gs' = GsInit /\ gsRun' = GsIdle("none", 0)
              /\ lin' = LinInit /\ linRun' = LinIdle("none", <<>>)
              /\ lu' = LuInit /\ luRun' = LuNone
              /\ simp' = SimpInit /\ simpRun' = NoCall
              /\ nd' = NdInit /\ ndRun' = NoCall
              /\ opt' = OptInit
              /\ ode' = OdeInit /\ odeRun' = Idle

Init == /\ page = "Menu"
        /\ alg = AlgInit /\ algRun = Idle /\ algCalls = AlgNoCalls
        /\ bis = BisInit /\ bisRun = BisIdle("none")
        /\ nr = NrInit /\ nrRun = NoCall
        /\ gs = GsInit /\ gsRun = GsIdle("none", 0)
        /\ lin = LinInit /\ linRun = LinIdle("none", <<>>)
        /\ lu = LuInit /\ luRun = LuNone
        /\ simp = SimpInit /\ simpRun = NoCall
        /\ nd = NdInit /\ ndRun = NoCall
        /\ opt = OptInit
        /\ ode = OdeInit /\ odeRun = Idle

(* the root-finding pages: Algorithms, Bisection, Newton-Raphson *)
RootPages == {"Algorithms", "Bisection", "NewtonRaphson"}

NextRoot ==
  \/ \E p \in RootPages : OpenPage(p)
  \/ BackToMenu
  \/ \E v \in AlgFuncs : AlgSetFuncStr(v)
  \/ \E v \in AlgAs : AlgSetA(v)
  \/ \E v \in AlgBs : AlgSetB(v)
  \/ \E v \in AlgTols : AlgSetTol(v)
  \/ RunComparison
  \/ AlgBisStep
  \/ AlgNewtonStep
  \/ \E v \in BisFuncs : BisSetFx(v)
  \/ \E v \in BisAs : BisSetA(v)
  \/ \E v \in BisBs : BisSetB(v)
  \/ \E v \in BisTols : BisSetTol(v)
  \/ RunBisection
  \/ BisPageStep
  \/ \E v \in NrFuncs : NrSetFx(v)
  \/ \E v \in NrX0s : NrSetX0(v)
  \/ \E v \in NrTols : NrSetTol(v)
  \/ \E v \in NrMaxIters : NrSetMaxIter(v)
  \/ RunNewton

SpecRoot == Init /\ [][NextRoot]_vars

(* the linear-algebra pages: Gauss-Seidel, Linear Systems, LU Decomposition *)
LinearPages == {"GaussSeidel", "LinearSystems", "LuDecomposition"}

NextLinear ==
  \/ \E p \in LinearPages : OpenPage(p)
  \/ BackToMenu
  \/ \E v \in GsATexts : GsSetAmText(v)
  \/ \E v \in GsBTexts : GsSetBText(v)
  \/ \E v \in GsTols : GsSetTol(v)
  \/ \E v \in GsMaxIters : GsSetMaxIter(v)
  \/ RunGS
  \/ GsSweepStep
  \/ \E v \in LinATexts : LinSetAtext(v)
  \/ \E v \in LinBTexts : LinSetBtext(v)
  \/ \E v \in LinTols : LinSetTol(v)
  \/ \E v \in LinMaxIters : LinSetMaxIter(v)
  \/ RunExperiment
  \/ LinSweepStep
  \/ \E v \in LuATexts : LuSetAtext(v)
  \/ \E v \in LuBTexts : LuSetBtext(v)
  \/ LuFactorize
  \/ LuSolve

SpecLinear == Init /\ [][NextLinear]_vars

(* the calculus pages: Simpson's rule, numerical differentiation, scalar   *)
(* optimisation, ODE solvers                                               *)
CalcPages == {"SimpsonsRule", "NumDiff", "ODEs"}

NextCalc ==
  \/ \E p \in CalcPages : OpenPage(p)
  \/ BackToMenu
  \/ \E v \in SimpFuncs : SimpSetFx(v)
  \/ \E v \in SimpAs : SimpSetA(v)
  \/ \E v \in SimpBs : SimpSetB(v)
  \/ \E v \in SimpNs : SimpSetN(v)
  \/ RunSimpson
  \/ \E v \in NdFuncs : NdSetFx(v)
  \/ \E v \in NdX0s : NdSetX0(v)
  \/ NdHandleRun
  \/ OdeHandleRun
  \/ Rk23Step
  \/ Rk45Step
  \/ Dop853Step

SpecCalc == Init /\ [][NextCalc]_vars

(* the optimisation page *)
NextOpt ==
  \/ OpenPage("ScalarOptimization")
  \/ BackToMenu
  \/ \E v \in {"scalar", "multi"} : OptSetMode(v)
  \/ \E v \in OptFuncs : OptSetFx(v)
  \/ \E v \in OptAs : OptSetA(v)
  \/ \E v \in OptBs : OptSetB(v)
  \/ \E v \in OptTols : OptSetTol(v)
  \/ \E v \in OptFxys : OptSetFxy(v)
  \/ \E v \in OptX0s : OptSetX0(v)
  \/ \E v \in OptY0s : OptSetY0(v)
  \/ \E v \in OptAlphas : OptSetAlpha(v)
  \/ \E v \in OptMaxIters : OptSetMaxIter(v)

SpecOpt == Init /\ [][NextOpt]_vars

(* the steppers of the ODE page run on step sizes and time spans of any    *)
(* sign and size, the page's own among them                                *)
OdeInputs ==
  { [t0 |-> Num(OdeT0Default), t1 |-> Num(OdeT1Default), hs |-> OdeHsDefault],
    [t0 |-> Milli(480), t1 |-> Milli(5300), hs |-> <<Num(5), Milli(700), Num(5)>>],
    [t0 |-> Num(0), t1 |-> Num(2), hs |-> <<0, Milli(20), Milli(50)>>],
    [t0 |-> Num(0), t1 |-> Num(2), hs |-> <<Milli(700), Milli(0 - 500), Milli(50)>>],
    [t0 |-> Num(0), t1 |-> Num(2), hs |-> <<Milli(20), Milli(700), 0>>],
    [t0 |-> Num(2), t1 |-> Num(0), hs |-> OdeHsDefault] }

InitOde ==
  /\ page = "ODEs"
  /\ alg = AlgInit /\ algRun = Idle /\ algCalls = AlgNoCalls
  /\ bis = BisInit /\ bisRun = BisIdle("none")
  /\ nr = NrInit /\ nrRun = NoCall
  /\ gs = GsInit /\ gsRun = GsIdle("none", 0)
  /\ lin = LinInit /\ linRun = LinIdle("none", <<>>)
  /\ lu = LuInit /\ luRun = LuNone
  /\ simp = SimpInit /\ simpRun = NoCall
  /\ nd = NdInit /\ ndRun = NoCall
  /\ opt = OptInit
  /\ \E c \in OdeInputs : ode = [OdeInit EXCEPT !.t0 = c.t0, !.t1 = c.t1, !.hs = c.hs]
  /\ odeRun = Idle

NextOde ==
  \/ OdeHandleRun
  \/ Rk23Step
  \/ Rk45Step
  \/ Dop853Step

SpecOde == InitOde /\ [][NextOde]_vars

(***************************************************************************)
(*                         the root-finding claims                         *)
(***************************************************************************)
Last(q) == q[Len(q)]

\* the last runComparison read inputs whose bracket has f(a) * f(b) > 0
AlgSameSign == /\ algCalls.in # NoCall
               /\ Compiles(algCalls.in.fn)
               /\ FGt(SignProd(F(algCalls.in.fn, algCalls.in.a),
                               F(algCalls.in.fn, algCalls.in.b)), 0)
\* the Bisection page's inputs have f(a) * f(b) > 0
BisPageSameSign == FGt(SignProd(evaluateF(bis.fx, bis.a), evaluateF(bis.fx, bis.b)), 0)

\* C1 (Algorithms.bisection): from a bracket with f(a) * f(b) > 0 the call
\* ends with the sign error before any step of its loop.
C1_AlgRejects ==
  AlgSameSign =>
    /\ algCalls.bis = [kind |-> "throw", msg |-> MsgSign, trace |-> <<>>]
    /\ algRun.pc = "idle"
    /\ algCalls.nr1 = NoCall /\ algCalls.nr2 = NoCall
\* C1 (Bisection page): while the inputs have f(a) * f(b) > 0 the banner
\* shows the sign error and runBisection's loop is not running and has not run.
C1_PageRejects ==
  BisPageSameSign =>
    /\ bis.errMsg = IF IsFinite(evaluateF(bis.fx, bis.a)) /\ IsFinite(evaluateF(bis.fx, bis.b))
                    THEN BisMsgSign ELSE BisMsgNotFinite
    /\ bisRun.pc = "idle" /\ bisRun.last \in {"none", "refused"}
\* C1 (Bisection page): a click that is refused leaves the step log as it was.
C1_PageKeepsLog ==
  (bisRun'.pc = "idle" /\ bisRun'.last = "refused") => bis'.steps = bis.steps

\* C1: bisection rejects a bracket with f(a) * f(b) > 0 before iterating: the
\* run ends with the sign error and no bisection step is executed or recorded
\* (Algorithms.bisection throws before its loop; runBisection returns without
\* changing the step log).
C1_SignErrorBeforeLoop ==
  /\ [](C1_AlgRejects /\ C1_PageRejects)
  /\ [][C1_PageKeepsLog]_vars

\* witness of C1: runComparison was clicked on a same-sign bracket
C1_Witness == AlgSameSign /\ alg.errMsg = MsgSign

\* C2: for every bracket a < b with f(a) * f(b) <= 0 and every tol > 0,
\* bisection returns a root estimate: it never ends in an error, and the
\* iteration cap never makes it fail.
C2_BisectionAlwaysReturns ==
  ( /\ algCalls.in # NoCall
    /\ Compiles(algCalls.in.fn)
    /\ FLt(algCalls.in.a, algCalls.in.b)
    /\ ~FGt(SignProd(F(algCalls.in.fn, algCalls.in.a),
                     F(algCalls.in.fn, algCalls.in.b)), 0)
    /\ FGt(algCalls.in.tol, 0) )
  => algCalls.bis.kind # "throw"

\* the records of the newtonRaphson calls of the last runComparison
AlgNewtonTraces == {c.trace : c \in {c \in {algCalls.nr1, algCalls.nr2} : c # NoCall}}

\* C3: Newton-Raphson never divides f(x) by f'(x) at an iterate where
\* |f'(x)| < 1e-12: it nudges x by the fixed amount and goes on, the nudge
\* using up one iteration, or it stops with a derivative error.  Both in
\* Algorithms.newtonRaphson and in the page's runNewton.
C3_NoDivisionBySmallDerivative ==
  /\ \A tr \in AlgNewtonTraces : \A k \in 1..Len(tr) :
        /\ DerivSmall(tr[k].dfx) <=> tr[k].act = "nudge"
        /\ tr[k].i = k
        /\ (tr[k].act = "nudge" /\ k < Len(tr)) => tr[k + 1].x = FAdd(tr[k].x, Nudge)
  /\ nrRun.kind = "ran" => \A k \in 1..Len(nrRun.divs) : ~DerivSmall(nrRun.divs[k])

\* C4: when Newton-Raphson uses up maxIter iterations without meeting either
\* convergence criterion the run ends in a NoConvergence failure the caller
\* can tell from a converged result: newtonRaphson throws, and the page
\* reports it in its banner or in the note of the last record.
C4_ExhaustionIsReported ==
  /\ \A c \in {algCalls.nr1, algCalls.nr2} :
        (c.kind \in {"ok", "throw"} /\ Len(c.trace) = NewtonMaxIt /\ Last(c.trace).act # "converged")
           => (c.kind = "throw" /\ c.msg = MsgNewtonFail)
  /\ (nrRun.kind = "ran" /\ nrRun.why = "exhausted")
        => (nr.errMsg # "" \/ (nr.steps # <<>> /\ Last(nr.steps).note # ""))

\* the iterates of the newtonRaphson calls at which |f(x)| < tol already held
\* and the call went on all the same
AlgPassedFConv ==
  \E tr \in AlgNewtonTraces : \E k \in 1..Len(tr) :
     /\ tr[k].act # "converged"
     /\ FLt(FAbs(F(algCalls.in.fn, tr[k].x)), algCalls.in.tol)

\* runNewton's log obeys both criteria: no record before the last has
\* |f(x)| < tol, no step before the last is shorter than tol, and the run
\* ends on the first of the two that holds
NrBothCriteria ==
  nrRun.kind = "ran" =>
    LET log == nr.steps
        n   == Len(log)
        eps == nrRun.tol
        small(v) == FLt(FAbs(v), eps)
    IN  /\ \A k \in 1..(n - 1) : ~small(log[k].fx)
        /\ \A k \in 1..(n - 2) : ~small(FSub(log[k + 1].x, log[k].x))
        /\ nrRun.why = "fconv" => small(log[n].fx)
        /\ nrRun.why = "xconv" => /\ small(FSub(log[n].x, log[n - 1].x))
                                  /\ log[n].note = NoteConverged
        /\ nrRun.why # "xconv" =>
              /\ n >= 1 => log[n].note # NoteConverged
              /\ n >= 2 => ~small(FSub(log[n].x, log[n - 1].x))
        /\ (nrRun.why \in {"deriv", "exhausted"} /\ n >= 1) => ~small(log[n].fx)

\* newtonRaphson obeys the step criterion: it returns at the first step
\* shorter than tol and at no other
AlgStepCriterion ==
  \A c \in {c \in {algCalls.nr1, algCalls.nr2} : c # NoCall} :
     LET tr == c.trace
         small(v) == FLt(FAbs(v), algCalls.in.tol)
     IN  /\ \A k \in 1..(Len(tr) - 1) :
               tr[k].act = "step" => ~small(FSub(tr[k + 1].x, tr[k].x))
         /\ c.kind = "ok" => /\ Last(tr).act = "converged"
                             /\ small(FSub(c.root, Last(tr).x))
         /\ \A k \in 1..Len(tr) :
               tr[k].act = "converged" => (k = Len(tr) /\ c.kind = "ok")

\* C5, as claimed: Newton-Raphson checks both convergence criteria at every
\* iteration, stopping as converged at the first iterate with |f(x_n)| < tol
\* and at the first step with |x_(n+1) - x_n| < tol, whichever comes first
\* (Algorithms.newtonRaphson and the page's runNewton).
C5_BothCriteriaEverywhere == NrBothCriteria /\ AlgStepCriterion /\ ~AlgPassedFConv

\* C5, amended: the page's runNewton checks both criteria at every iteration
\* and stops at the first that holds; Algorithms.newtonRaphson checks the
\* step criterion alone and returns at the first step shorter than tol.
C5_PageBothAlgStepOnly == NrBothCriteria /\ AlgStepCriterion

\* witness of C5: a page run that ended on the function-value criterion after
\* at least one Newton step
C5_Witness == nrRun.kind = "ran" /\ nrRun.why = "fconv" /\ Len(nr.steps) >= 2

(***************************************************************************)
(*                        the linear-algebra claims                        *)
(***************************************************************************)
\* rows that form a square matrix
SquareRows(rows) == \A i \in 1..Len(rows) : Len(rows[i]) = Len(rows)
\* a square matrix with a row whose diagonal entry does not exceed, in
\* magnitude, the sum of the magnitudes of the row's other entries
NotDominant(rows) ==
  /\ SquareRows(rows)
  /\ \E i \in 1..Len(rows) :
        AbsInt(rows[i][i])
          <= SumInt([j \in 1..Len(rows) |-> IF j = i THEN 0 ELSE AbsInt(rows[i][j])])
\* every vector of a right-hand-side text has n entries
AllOfLength(Bs, n) == \A k \in 1..Len(Bs) : Len(Bs[k]) = n

\* the Gauss-Seidel page called runGS on a well-formed system whose matrix
\* is not dominant
GsRanNotDominant ==
  /\ gsRun.pc = "idle" /\ gsRun.last # "none"
  /\ NotDominant(SplitRows(gs.amText))
  /\ AllOfLength(SplitVectors(gs.bText), Len(SplitRows(gs.amText)))
\* runExperiment was called on a well-formed system whose matrix is not
\* dominant, and came to its end
LinRanNotDominant ==
  /\ linRun.pc = "idle" /\ linRun.last = "ran"
  /\ NotDominant(SplitRows(lin.Atext))

C6_PageBlocks ==
  GsRanNotDominant =>
    (gs.errMsg = GsMsgNotDominant /\ gsRun.last = "refused" /\ gsRun.sweeps = 0)
C6_LinRunsUnwarned ==
  LinRanNotDominant =>
    /\ lin.errMsg = "" /\ lin.results # Null
    /\ Len(linRun.calls) = Len(SplitVectors(lin.Btext))
    /\ \A k \in 1..Len(linRun.calls) : Len(linRun.calls[k].xs) >= 1
C6_RefusalKeepsRows ==
  (gsRun'.pc = "idle" /\ gsRun'.last = "refused") => gs'.rows = gs.rows

C7_CachedEqualsDirect ==
  (luRun.op = "solve" /\ luRun.last = "solved")
    => \A k \in 1..Len(luRun.direct) : lu.solveData.solutions[k] = luRun.direct[k]

\* the entry points were called on inputs of the wrong shape
GsBadDims ==
  /\ gsRun.pc = "idle" /\ gsRun.last # "none"
  /\ \/ ~SquareRows(SplitRows(gs.amText))
     \/ ~AllOfLength(SplitVectors(gs.bText), Len(SplitRows(gs.amText)))
LinBadDims ==
  /\ linRun.pc = "idle" /\ linRun.last # "none"
  /\ \/ ~SquareRows(SplitRows(lin.Atext))
     \/ ~AllOfLength(SplitVectors(lin.Btext), Len(SplitRows(lin.Atext)))
LuBadMatrix == luRun.op = "factorize" /\ ~SquareRows(SplitRows(lu.Atext))
LuBadRhs ==
  /\ luRun.op = "solve" /\ lu.LU # Null
  /\ ~AllOfLength(SplitVectors(lu.btext), Len(lu.LU.A))
\* the first right-hand side of the LU page whose length is wrong
LuFirstBad ==
  CHOOSE k \in 1..Len(SplitVectors(lu.btext)) :
    /\ Len(SplitVectors(lu.btext)[k]) # Len(lu.LU.A)
    /\ \A k2 \in 1..(k - 1) : Len(SplitVectors(lu.btext)[k2]) = Len(lu.LU.A)

C8_EarlyRejects ==
  /\ GsBadDims => (gs.errMsg # "" /\ gsRun.last = "refused" /\ gsRun.sweeps = 0)
  /\ LinBadDims => (lin.errMsg # "" /\ linRun.last = "refused" /\ linRun.calls = <<>>)
  /\ LuBadMatrix => (lu.err # "" /\ lu.LU = Null /\ luRun.lups = 0 /\ luRun.subs = 0)

\* C8, as claimed: every linear entry point (Gauss-Seidel page,
\* runExperiment, LU factorize, LU solve) rejects a non-square matrix and a
\* right-hand side of the wrong length with an error before any sweep,
\* factorization or substitution step runs.
C8_RejectsBeforeAnyStep ==
  /\ C8_EarlyRejects
  /\ LuBadRhs => (lu.err # "" /\ luRun.lups = 0 /\ luRun.subs = 0)

C8_SolveRejectsLate ==
  LuBadRhs => /\ lu.err = LuMsgSolveDim /\ luRun.last = "failed"
              /\ luRun.subs = 2 * (LuFirstBad - 1)
              /\ luRun.lups >= LuFirstBad - 1
C8_FailedSolveKeepsData ==
  (luRun'.op = "solve" /\ luRun'.last # "solved") => lu'.solveData = lu.solveData

\* C8, amended: the Gauss-Seidel page, runExperiment and LU factorize reject
\* a non-square matrix or a right-hand side of the wrong length with an
\* error before any sweep, factorization or substitution runs; LU solve has
\* no check of its own: a right-hand side of the wrong length is rejected
\* by lusolve when its turn comes, after the right-hand sides before it
\* have been solved, and the error is reported without any solution being
\* published.
C8_RejectsSolveLate ==
  /\ [](C8_EarlyRejects /\ C8_SolveRejectsLate)
  /\ [][C8_FailedSolveKeepsData]_vars

\* witness of C8: LU solve has rejected the second right-hand side after
\* solving the first
C8_Witness == LuBadRhs /\ luRun.last = "failed" /\ luRun.subs = 2

\* the two stopping criteria after sweep k of a run on (A, b) whose
\* iterates are xs: the max-norm change of x across the sweep, and the
\* residual norm, each below tol
ChangeBelow(xs, k, tol) ==
  FLt(MaxChange(xs[k], IF k = 1 THEN Zeros(Len(xs[1])) ELSE xs[k - 1]), tol)
ResidualBelow(A, b, xs, k, tol) == FLt(Norm2(Residual(A, xs[k], b)), tol)

\* the iterates of the page's last run, and the system it ran on
GsXs == [k \in 1..Len(gs.rows) |-> gs.rows[k].x]
GsA  == SplitRows(gs.amText)
GsB  == SplitVectors(gs.bText)[1]
GsRan == gsRun.pc = "idle" /\ gsRun.last = "ran"
LinRan == linRun.pc = "idle" /\ linRun.last = "ran"

\* C9, as claimed: Gauss-Seidel stops at the first sweep after which the
\* max-norm change of x is below tol or the residual norm is below tol, and
\* runs no further sweep once either holds (runGS and gaussSeidel).
C9_StopsOnEitherCriterion ==
  /\ GsRan => \A k \in 1..(Len(gs.rows) - 1) :
                 /\ ~ChangeBelow(GsXs, k, gs.tol)
                 /\ ~ResidualBelow(GsA, GsB, GsXs, k, gs.tol)
  /\ LinRan => \A c \in 1..Len(linRun.calls) :
                 \A k \in 1..(Len(linRun.calls[c].xs) - 1) :
                    /\ ~ChangeBelow(linRun.calls[c].xs, k, lin.tol)
                    /\ ~ResidualBelow(SplitRows(lin.Atext), linRun.calls[c].b,
                                      linRun.calls[c].xs, k, lin.tol)

\* C9, amended: the page's runGS stops at the first sweep after which the
\* residual norm is below tol, whatever the change of x; gaussSeidel of the
\* Linear Systems page stops at the first sweep after which the max-norm
\* change of x is below tol, whatever the residual; neither runs past
\* maxIter sweeps.
C9_EachStopsOnItsOwnCriterion ==
  /\ GsRan =>
       /\ gsRun.sweeps = Len(gs.rows) /\ Len(gs.rows) <= gs.maxIter
       /\ \A k \in 1..(Len(gs.rows) - 1) : ~ResidualBelow(GsA, GsB, GsXs, k, gs.tol)
       /\ Len(gs.rows) < gs.maxIter =>
            ResidualBelow(GsA, GsB, GsXs, Len(gs.rows), gs.tol)
  /\ LinRan =>
       \A c \in 1..Len(linRun.calls) :
          LET xs == linRun.calls[c].xs
          IN  /\ Len(xs) <= lin.maxIter
              /\ \A k \in 1..(Len(xs) - 1) : ~ChangeBelow(xs, k, lin.tol)
              /\ linRun.calls[c].converged <=> ChangeBelow(xs, Len(xs), lin.tol)
              /\ Len(xs) < lin.maxIter => linRun.calls[c].converged

\* witness of C9: the page ran a further sweep after one whose change of x
\* was already below tol
C9_Witness ==
  GsRan /\ \E k \in 1..(Len(gs.rows) - 1) : ChangeBelow(GsXs, k, gs.tol)

\* C10: Gauss-Seidel makes at most maxIter sweeps; at the cap without
\* convergence it returns the current vector without an error, and what it
\* returns differs from what a run that converged on its maxIter-th sweep
\* returns.
C10_CapIsReported ==
  /\ GsRan => (Len(gs.rows) <= gs.maxIter /\ gs.errMsg = "")
  /\ LinRan =>
       /\ lin.errMsg = ""
       /\ \A c \in 1..Len(linRun.calls) :
            LET call == linRun.calls[c]
            IN  /\ Len(call.xs) <= lin.maxIter
                /\ call.result.x = call.xs[Len(call.xs)]
                /\ ~call.converged =>
                     call.result # [x |-> call.result.x, iterations |-> Len(call.xs)]

(***************************************************************************)
(*                           the calculus claims                           *)
(***************************************************************************)
\* nn is a positive even integer
PositiveEven(nn) == nn > 0 /\ nn % (2 * Scale) = 0
\* the Simpson page's inputs are valid but for n
SimpOnlyNBad == /\ page = "SimpsonsRule"
                /\ Compiles(simp.fx) /\ FLt(simp.a, simp.b)
                /\ ~PositiveEven(simp.n)

\* C11 (validation): while n is not a positive even integer and the other
\* inputs are valid, the banner shows the partition error; an empty banner
\* means n is a positive even integer.
C11_Banner ==
  /\ SimpOnlyNBad => simp.errMsg = SimpMsgEven
  /\ (page = "SimpsonsRule" /\ simp.errMsg = "") => PositiveEven(simp.n)
\* C11 (runSimpson): a run that computed an integral read a positive even n,
\* and a stored result has an odd number of rows, at least three.
C11_RanOnlyEven ==
  /\ simpRun.kind = "ran" => PositiveEven(simp.n)
  /\ simp.result # Null => /\ Len(simp.result.rows) >= 3
                           /\ Len(simp.result.rows) % 2 = 1
\* C11 (runSimpson): a click while n is not a positive even integer is
\* refused and leaves the stored result as it was.
C11_KeepsResult ==
  (simpRun'.kind # "none" /\ simpRun' # simpRun /\ ~PositiveEven(simp.n))
    => (simpRun'.kind = "refused" /\ simp'.result = simp.result)

\* C11: Simpson's rule runs only for a positive even partition count: when n
\* is not a positive even integer runSimpson ends on the partition error
\* without computing an integral, and any stored result is left unchanged.
C11_OnlyPositiveEvenN ==
  /\ [](C11_Banner /\ C11_RanOnlyEven)
  /\ [][C11_KeepsResult]_vars

\* witness of C11: a result is stored, n was then made invalid, and the click
\* on Execute was refused under the partition error
C11_Witness == /\ SimpOnlyNBad /\ simpRun.kind = "refused"
               /\ simp.errMsg = SimpMsgEven /\ simp.result # Null

\* the sample point x_i = a + i*h
SimpX(a, h, i) == FAdd(a, FMul(Num(i), h))
\* Simpson's composite formula for n sub-intervals of width h from a to b
SimpFormula(fn, a, b, n, h) ==
  FMul(FDiv(h, Num(3)),
       FAdd(FAdd(FAdd(F(fn, a),
                      FMul(Num(4), SumF([k \in 1..(n \div 2) |->
                                           F(fn, SimpX(a, h, 2 * k - 1))]))),
                 FMul(Num(2), SumF([k \in 1..(n \div 2 - 1) |->
                                      F(fn, SimpX(a, h, 2 * k))]))),
            F(fn, b)))

\* C12: for valid inputs runSimpson stores (h/3) [f(x_0) + 4 (sum of f at the
\* odd interior points) + 2 (sum of f at the even interior points) + f(x_n)]
\* with h = (b - a)/n and x_i = a + i*h, and a table of exactly n + 1 rows
\* with indices 0..n, the first at a and the last at b.
C12_SimpsonFormula ==
  simpRun.kind = "ran" =>
    LET n == simp.n \div Scale
        h == FDiv(FSub(simp.b, simp.a), simp.n)
        r == simp.result
    IN  /\ r.h = h
        /\ r.integral = SimpFormula(simp.fx, simp.a, simp.b, n, h)
        /\ Len(r.rows) = n + 1
        /\ \A k \in 1..(n + 1) : r.rows[k].i = k - 1
        /\ r.rows[1].x = simp.a /\ r.rows[n + 1].x = simp.b
        /\ \A k \in 2..n : r.rows[k].x = SimpX(simp.a, h, k - 1)
        /\ \A k \in 1..(n + 1) : r.rows[k].fx = F(simp.fx, r.rows[k].x)

\* witness of C12: a run over four or more sub-intervals of a function that
\* is not constant stored a finite integral
C12_Witness == /\ simpRun.kind = "ran" /\ simpRun.n >= 4
               /\ IsGrid(simp.result.integral) /\ simp.result.integral > 0

\* a stepper is in its loop, or at the loop test that ends it
OdeRunning == odeRun.pc # "idle"
\* the step from this state to the next is an iteration of a stepper's loop
OdeIteration == /\ OdeRunning /\ odeRun'.pc = odeRun.pc
                /\ odeRun'.steps = odeRun.steps + 1

OdeValidCall == /\ OdeRunning
                /\ FLt(ode.t0, ode.t1) /\ FGt(ode.hs[odeRun.k], 0)
\* the running stepper's loop is over
OdeAtExit == OdeRunning /\ ~OdeGoOn(odeRun.t, odeRun.up, ode.t1)

\* C17 (t1 is not passed): t <= t1 at the loop test after every step.
C17_AtMostT1 == OdeValidCall => (~odeRun.up /\ ~FGt(odeRun.t, ode.t1))
\* C17 (t1 is passed by a rounding error at most): t <= t1, or t is the
\* double next above t1 and the step that led there was the shortened one.
C17_AtMostT1Rounded ==
  OdeValidCall => /\ ~FGt(odeRun.t, ode.t1)
                  /\ odeRun.up => (odeRun.t = ode.t1 /\ odeRun.h # ode.hs[odeRun.k])
\* C17 (step sizes): h is the caller's h until a step is shortened, and the
\* loop is over after a shortened step.
C17_CallersH == OdeValidCall => (odeRun.h = ode.hs[odeRun.k] \/ OdeAtExit)
\* C17 (exit): when the loop is over t is within 1e-12 of t1, which on the
\* grid is t1 itself.
C17_ExitAtT1 == (OdeValidCall /\ OdeAtExit) => odeRun.t = ode.t1
\* C17 (a step): t grows by the caller's h, or by t1 - t if t + h is past t1.
C17_Step ==
  (OdeValidCall /\ OdeIteration) =>
    odeRun'.t = FAdd(odeRun.t, IF FGt(FAdd(odeRun.t, odeRun.h), ode.t1)
                               THEN FSub(ode.t1, odeRun.t) ELSE odeRun.h)

C14_NoUncaughtException == ndRun.kind # "threw" /\ page # Crashed

\* C15: when the evaluation of f fails in iteration k > 1 of golden-section
\* search, scalarSteps returns the records of iterations 1..k-1 instead of
\* discarding them.
C15_KeepsPartialTrace ==
  (page = "ScalarOptimization" /\ opt.scalar.threwAt > 1)
    => /\ opt.scalar.steps = opt.scalar.pushed
       /\ Len(opt.scalar.steps) = opt.scalar.threwAt - 1

\* C20: golden-section search evaluates f once per iteration after the two
\* evaluations at the first interior points: k + 2 evaluations after k
\* iterations.
C20_OneEvaluationPerIteration ==
  (page = "ScalarOptimization" /\ opt.scalar.threwAt = 0 /\ FLt(opt.a, opt.b))
    => opt.scalar.evals = Len(opt.scalar.steps) + 2

(***************************************************************************)
(*                      running an operation twice                         *)
(***************************************************************************)
\* the step from this state to the next ends a runComparison that began on
\* the inputs, unchanged, of the run whose results are on the page
AlgEndsRerun == /\ algRun.pc # "idle" /\ algRun'.pc = "idle"
                /\ algCalls.again
\* a result object and the page's results without their time fields
AlgUntimed(r) == IF r = Null THEN Null ELSE [root |-> r.root, iters |-> r.iters, err |-> r.err]
AlgResultsUntimed(res) ==
  IF res = Null THEN Null
  ELSE [bis |-> AlgUntimed(res.bis), newton |-> AlgUntimed(res.newton)]

ZeroPivot(U) == \E i \in 1..Len(U) : U[i][i] = R0

\* C18: factorising a matrix with a zero pivot under partial pivoting fails
\* and stores no factorization: the stored U has no zero on its diagonal,
\* and no stored solution holds the NaN of a division by such a zero in
\* backSub.
C18_SingularIsRejected ==
  /\ lu.LU # Null => ~ZeroPivot(lu.LU.U)
  /\ lu.solveData # Null =>
       \A k \in 1..Len(lu.solveData.solutions) :
         \A i \in 1..Len(lu.solveData.solutions[k]) :
           ~RBad(lu.solveData.solutions[k][i])

(***************************************************************************)
(*                        where a bisection run stops                      *)
(***************************************************************************)
\* the Bisection page's loop is at its test, and Algorithms.bisection is at
\* the top of an iteration within its cap
BisPageAtTest == page = "Bisection" /\ bisRun.pc = "loop"
AlgBisAtStep  == page = "Algorithms" /\ algRun.pc = "bis" /\ algRun.i <= BisectionMaxIt
\* (b - a)/2 < tol, and (b - a)/2 = tol, for the bracket of the running loop
BisPageHalfBelow == HalfLt(FSub(bisRun.bb, bisRun.aa), bis.tol)
BisPageHalfEqual == /\ ~HalfLt(FSub(bisRun.bb, bisRun.aa), bis.tol)
                    /\ ~HalfGt(FSub(bisRun.bb, bisRun.aa), bis.tol)
AlgBisHalfBelow  == HalfLt(FSub(algRun.bb, algRun.aa), alg.tol)
\* f is zero at the midpoint of the running loop's bracket
BisPageZeroAtC == evaluateF(bis.fx, Mid(bisRun.aa, bisRun.bb)) = 0
AlgBisZeroAtC  == F(alg.funcStr, Mid(algRun.aa, algRun.bb)) = 0

\* C19 (Algorithms.bisection): iteration i returns exactly when
\* (b - a)/2 < tol or f(c) = 0, and goes on to iteration i + 1 otherwise.
C19_AlgStops ==
  AlgBisAtStep => /\ algRun'.pc = "nr1" <=> (AlgBisHalfBelow \/ AlgBisZeroAtC)
                  /\ algRun'.pc = "bis" <=> ~(AlgBisHalfBelow \/ AlgBisZeroAtC)
\* f changes sign strictly over the bracket typed on the Bisection page
BisStrictBracket ==
  FLt(SignProd(evaluateF(bis.fx, bis.a), evaluateF(bis.fx, bis.b)), 0)
\* C19 (Bisection page, as stated): on a bracket with a strict sign change
\* the loop ends exactly when (b - a)/2 < tol, f(c) = 0 or the index has
\* passed 100.
C19_PageStopsBelowTol ==
  (BisPageAtTest /\ BisStrictBracket) =>
    (bisRun'.pc = "idle" <=>
       (BisPageHalfBelow \/ bisRun.i > BisPageCap \/ BisPageZeroAtC))
\* C19 (Bisection page, amended): the loop ends exactly when
\* (b - a)/2 <= tol, f(c) = 0 or the index has passed 100; a step is
\* recorded unless the loop ended at its test.
C19_PageStopsAtTol ==
  BisPageAtTest =>
    /\ bisRun'.pc = "idle" <=>
         (BisPageHalfBelow \/ BisPageHalfEqual \/ bisRun.i > BisPageCap \/ BisPageZeroAtC)
    /\ (BisPageHalfBelow \/ BisPageHalfEqual \/ bisRun.i > BisPageCap)
         => bis'.steps = bisRun.log
    /\ bisRun'.pc = "loop" => Len(bisRun'.log) = Len(bisRun.log) + 1

\* C19 as stated: a bisection run on a valid bracket stops exactly at the
\* first step at which (b - a)/2 < tol or f(c) = 0 or the index reaches 100,
\* not earlier and not later.
C19_StopsExactlyBelowTol == [][C19_AlgStops /\ C19_PageStopsBelowTol]_vars
\* C19 amended: Algorithms.bisection stops at (b - a)/2 < tol, the Bisection
\* page at (b - a)/2 <= tol; both stop at f(c) = 0 and at the cap.
C19_StopsExactlyAtTol == [][C19_AlgStops /\ C19_PageStopsAtTol]_vars

\* witness of C19: the page's run on a valid bracket whose half-width equals
\* tol has ended without a step
C19_Witness == /\ page = "Bisection" /\ bisRun.pc = "idle" /\ bisRun.last = "ran"
               /\ bis.steps = <<>> /\ BisStrictBracket
               /\ ~HalfLt(FSub(bis.b, bis.a), bis.tol)
               /\ ~HalfGt(FSub(bis.b, bis.a), bis.tol)

(***************************************************************************)
(*                    the sign change over the bracket                     *)
(***************************************************************************)
\* f(aa) * f(bb) > 0 for the bracket the bisection loops hold
BisLoopSameSign ==
  FGt(SignProd(evaluateF(bis.fx, bisRun.aa), evaluateF(bis.fx, bisRun.bb)), 0)
AlgLoopSameSign ==
  FGt(SignProd(F(alg.funcStr, algRun.aa), F(alg.funcStr, algRun.bb)), 0)

\* C21: throughout a bisection run that starts from a bracket with
\* f(a) * f(b) <= 0, the current bracket satisfies f(a) * f(b) <= 0 after
\* every update, also when f is zero at an endpoint of the initial bracket.
C21_BracketKeepsSignChange ==
  /\ BisPageAtTest => ~BisLoopSameSign
  /\ (page = "Algorithms" /\ algRun.pc = "bis") => ~AlgLoopSameSign

(***************************************************************************)
(*                      the brackets of a bisection trace                  *)
(***************************************************************************)
\* record q[k + 1] holds one of the two parts into which record q[k]'s point
\* c divides its bracket
BisHalfOf(q, k) == \/ q[k + 1].a = q[k].a /\ q[k + 1].b = q[k].c
                   \/ q[k + 1].a = q[k].c /\ q[k + 1].b = q[k].b
\* twice the width of record q[k + 1] less the width of record q[k]
BisWidthOff(q, k) == 2 * (q[k + 1].b - q[k + 1].a) - (q[k].b - q[k].a)
\* every record but the last is followed by one of its halves
BisTraceHalves(q) == \A k \in 1..(Len(q) - 1) : BisHalfOf(q, k)
\* the width is halved exactly from each record to the next
BisTraceExact(q) == \A k \in 1..(Len(q) - 1) : BisWidthOff(q, k) = 0
\* c is the midpoint rounded to a neighbouring number of the format, inside
\* the bracket; the width is halved up to that rounding, and exactly when
\* the midpoint is a number of the format
BisTraceRounded(q) ==
  /\ \A k \in 1..Len(q) :
       /\ q[k].a <= q[k].c /\ q[k].c <= q[k].b
       /\ AbsInt(2 * q[k].c - (q[k].a + q[k].b)) <= 1
       /\ q[1].a <= q[k].a /\ q[k].b <= q[1].b
  /\ \A k \in 1..(Len(q) - 1) :
       /\ AbsInt(BisWidthOff(q, k)) <= 1
       /\ (q[k].a + q[k].b) % 2 = 0 => BisWidthOff(q, k) = 0
\* the trace on the Bisection page, and the log of the run in progress
BisTraces == {bis.steps} \cup (IF bisRun.pc = "loop" THEN {bisRun.log} ELSE {})

\* C22 as stated, for a tolerance below the resolution of the number format:
\* the bracket of record k + 1 is a half of record k's bracket and the width
\* is exactly halved at each step.
C22_WidthExactlyHalved ==
  (page = "Bisection" /\ bis.tol = PTiny) =>
    \A q \in BisTraces : BisTraceHalves(q) /\ BisTraceExact(q)
\* C22 amended: the bracket of record k + 1 is [a_k, c_k] or [c_k, b_k], where
\* c_k is the rounded midpoint; every bracket lies in the first one; the
\* width is halved up to the rounding of c_k.
C22_HalvedUpToRounding ==
  page = "Bisection" => \A q \in BisTraces : BisTraceHalves(q) /\ BisTraceRounded(q)
\* witness of C22: a trace on the page with a step whose width is not half
\* of the width before it
C22_Witness == /\ page = "Bisection" /\ bisRun.pc = "idle" /\ bisRun.last = "ran"
               /\ bis.tol = PTiny /\ Len(bis.steps) >= 2
               /\ ~BisTraceExact(bis.steps)

(***************************************************************************)
(*                     the Gauss-Seidel sweep is in place                  *)
(***************************************************************************)
\* the entries row i of a sweep reads: this sweep's for j < i, the previous
\* sweep's for j > i
GsSeen(new, prev, i) == [j \in 1..Len(new) |-> IF j < i THEN new[j] ELSE prev[j]]
\* (b_i - sum over j # i of A[i][j] * seen_j) / A[i][i], summed in the order
\* of j as the code sums it
GsEntry(A, b, new, prev, i) ==
  FDiv(FSub(b[i], SumF([j \in 1..Len(new) |->
                          IF j = i THEN 0 ELSE FMul(A[i][j], GsSeen(new, prev, i)[j])])),
       A[i][i])
\* the iterates xs of a run on (A, b) are Gauss-Seidel sweeps from zero
GsInPlace(A, b, xs) ==
  \A k \in 1..Len(xs) : \A i \in 1..Len(xs[k]) :
     xs[k][i] = GsEntry(A, b, xs[k], IF k = 1 THEN Zeros(Len(xs[k])) ELSE xs[k - 1], i)

\* C23: each Gauss-Seidel sweep is in place: the new x_i is computed from
\* this sweep's x_j for j < i and the previous sweep's x_j for j > i,
\* starting from the zero vector (runGS and gaussSeidel).
C23_SweepIsInPlace ==
  /\ GsRan => GsInPlace(GsA, GsB, GsXs)
  /\ (page = "GaussSeidel" /\ gsRun.pc = "sweep") =>
       GsInPlace(GsA, GsB, [k \in 1..Len(gsRun.log) |-> gsRun.log[k].x])
  /\ LinRan => \A c \in 1..Len(linRun.calls) :
                  GsInPlace(SplitRows(lin.Atext), linRun.calls[c].b, linRun.calls[c].xs)
\* witness of C23: the page's run made a second sweep whose result is not
\* the one a sweep on the previous entries only would give
C23_Witness == /\ GsRan /\ Len(gs.rows) >= 2
               /\ gs.rows[2].x # SweepJacobi(GsA, GsB, gs.rows[1].x, 1)

(***************************************************************************)
(*                      the brackets of golden section                     *)
(***************************************************************************)
\* the scalar inputs are the convex cost function on a bracket a < b
GoldenConvex == opt.fx = FnCost /\ FLt(opt.a, opt.b)
\* the minimiser of 0.05 x^2 - 3 x + 200 over [a, b]: its vertex 30, or the
\* end of the bracket next to it
GoldenMinimiser == IF opt.b < Num(30) THEN opt.b
                   ELSE IF opt.a > Num(30) THEN opt.a ELSE Num(30)
\* the bracket before iteration k (the inputs for k = 1) and after it
GoldenBefore(k) == IF k = 1 THEN [a |-> opt.a, b |-> opt.b]
                   ELSE [a |-> opt.scalar.steps[k - 1].a, b |-> opt.scalar.steps[k - 1].b]
GoldenAfter(k) == [a |-> opt.scalar.steps[k].a, b |-> opt.scalar.steps[k].b]
\* iteration k took [a, d] or [c, b] of the bracket before it
GoldenPart(k) ==
  \/ GoldenAfter(k) = [a |-> GoldenBefore(k).a,
                       b |-> GoldenD(GoldenBefore(k).a, GoldenBefore(k).b)]
  \/ GoldenAfter(k) = [a |-> GoldenC(GoldenBefore(k).a, GoldenBefore(k).b),
                       b |-> GoldenBefore(k).b]
\* a <= a' < b' <= b and the width is smaller
GoldenStrict(k) ==
  /\ GoldenBefore(k).a <= GoldenAfter(k).a /\ GoldenAfter(k).a < GoldenAfter(k).b
  /\ GoldenAfter(k).b <= GoldenBefore(k).b
  /\ GoldenAfter(k).b - GoldenAfter(k).a < GoldenBefore(k).b - GoldenBefore(k).a
\* a <= a' <= b' <= b; strictly so, with a smaller width, for a bracket wider
\* than one unit of the format; the width is phi times the width before up
\* to the rounding of the product
GoldenNested(k) ==
  /\ GoldenBefore(k).a <= GoldenAfter(k).a /\ GoldenAfter(k).a <= GoldenAfter(k).b
  /\ GoldenAfter(k).b <= GoldenBefore(k).b
  /\ GoldenBefore(k).b - GoldenBefore(k).a > 1 => GoldenStrict(k)
  /\ AbsInt((GoldenAfter(k).b - GoldenAfter(k).a)
            - FMul(Phi, GoldenBefore(k).b - GoldenBefore(k).a)) <= 1
  /\ opt.scalar.steps[k].len = GoldenAfter(k).b - GoldenAfter(k).a
\* the bracket after iteration k contains the minimiser
GoldenHolds(k) == GoldenAfter(k).a <= GoldenMinimiser /\ GoldenMinimiser <= GoldenAfter(k).b
\* the values compared in iteration k differ by more than the rounding error
\* of evaluating f (one unit of the format in each value)
GoldenApart(k) ==
  AbsInt(F(opt.fx, GoldenC(GoldenBefore(k).a, GoldenBefore(k).b))
         - F(opt.fx, GoldenD(GoldenBefore(k).a, GoldenBefore(k).b))) > 2

MultiBefore(k) == IF k = 1 THEN [v |-> opt.x0, m |-> opt.y0]
                  ELSE [v |-> opt.multi[k - 1].v, m |-> opt.multi[k - 1].m]
\* record k holds k, the point before it moved against the gradient taken
\* there, and f at the new point
MultiRecordOk(k) ==
  opt.multi[k] =
    [k |-> k,
     v |-> FSub(MultiBefore(k).v,
                FMul(opt.alpha, DfDv(opt.fxy, MultiBefore(k).v, MultiBefore(k).m))),
     m |-> FSub(MultiBefore(k).m,
                FMul(opt.alpha, DfDm(opt.fxy, MultiBefore(k).v, MultiBefore(k).m))),
     f |-> F2(opt.fxy, opt.multi[k].v, opt.multi[k].m)]
\* the Euclidean norm of the step of record k is below tol
MultiStepSmall(k) ==
  FLt(Norm2(<<FSub(opt.multi[k].v, MultiBefore(k).v),
              FSub(opt.multi[k].m, MultiBefore(k).m)>>), opt.tol)

\* C25: gradient descent records one entry per iteration k = 1, 2, ..., the
\* point after the update from the previous point; it stops right after the
\* first record whose step has norm < tol, and otherwise after exactly
\* maxIter records; the trace never has more than maxIter records.
C25_StopsOnSmallStepOrMaxIter ==
  /\ Len(opt.multi) <= opt.maxIter
  /\ opt.fxy = FxyEnergy =>
       /\ \A k \in 1..Len(opt.multi) : MultiRecordOk(k)
       /\ \A k \in 1..(Len(opt.multi) - 1) : ~MultiStepSmall(k)
       /\ Len(opt.multi) < opt.maxIter =>
            (Len(opt.multi) >= 1 /\ MultiStepSmall(Len(opt.multi)))
\* witness of C25: a trace that ended on a small step at its second record
\* or later, before maxIter
C25_Witness == /\ page = "ScalarOptimization" /\ opt.fxy = FxyEnergy
               /\ Len(opt.multi) >= 2 /\ Len(opt.multi) < opt.maxIter
               /\ MultiStepSmall(Len(opt.multi))

(***************************************************************************)
(*                 what runComparison reports after Newton                 *)
(***************************************************************************)
\* runComparison has run and ended
AlgRanIdle == algRun.pc = "idle" /\ algCalls.in # NoCall
\* a result object on the page is the one the call returned, whatever its time
AlgShows(res, call) ==
  res # Null /\ res.root = call.root /\ res.iters = call.iters /\ res.err = call.err
\* the point a call of newtonRaphson started from: x of its first record
AlgStartedAt(call, x0) == Len(call.trace) >= 1 /\ call.trace[1].x = x0
\* bisection failed: Newton was never run, results are null, the message set
AlgBisFailedOk ==
  /\ algCalls.nr1 = NoCall /\ algCalls.nr2 = NoCall
  /\ alg.results = Null /\ alg.errMsg = algCalls.bis.msg /\ alg.errMsg # ""
\* bisection succeeded: its result is reported, with no message, and Newton
\* ran from the midpoint and, after a failure, once more from bisection's root
AlgBisReportedOk ==
  /\ alg.errMsg = "" /\ alg.results # Null
  /\ AlgShows(alg.results.bis, algCalls.bis)
  /\ algCalls.nr1 # NoCall
  /\ AlgStartedAt(algCalls.nr1, Mid(algCalls.in.a, algCalls.in.b))
  /\ IF algCalls.nr1.kind = "ok"
     THEN algCalls.nr2 = NoCall /\ AlgShows(alg.results.newton, algCalls.nr1)
     ELSE /\ algCalls.nr2 # NoCall
          /\ AlgStartedAt(algCalls.nr2, algCalls.bis.root)
          /\ IF algCalls.nr2.kind = "ok"
             THEN AlgShows(alg.results.newton, algCalls.nr2)
             ELSE alg.results.newton = Null

\* C26: runComparison reports the bisection result whenever bisection
\* succeeds: Newton runs from the midpoint, a failure triggers one retry from
\* the bisection root, a second failure is recorded as newton = null with no
\* error message; when bisection fails Newton is not run, results become
\* null and the error message is set.
C26_BisectionIsReported ==
  AlgRanIdle => IF algCalls.bis.kind = "ok" THEN AlgBisReportedOk ELSE AlgBisFailedOk
\* witness of C26: both calls of Newton failed and the bisection result is
\* on the page with newton = null
C26_Witness ==
  /\ AlgRanIdle /\ algCalls.bis.kind = "ok"
  /\ algCalls.nr1.kind = "throw" /\ algCalls.nr2.kind = "throw"
  /\ alg.results # Null /\ alg.results.newton = Null

(***************************************************************************)
(*               how near the reported root is to a root of f              *)
(***************************************************************************)
\* the tolerance as a distance on the grid: nothing for a subnormal one
BisTolSpan(tol) == IF IsGrid(tol) THEN tol ELSE 0
\* f is zero at p, or changes sign between p and the next number up to hi
BisCrossesAt(fn, p, hi) ==
  \/ evaluateF(fn, p) = 0
  \/ p + 1 <= hi /\ FLt(SignProd(evaluateF(fn, p), evaluateF(fn, p + 1)), 0)
\* some point of [lo, hi] where f is zero or changes sign is within tol of c
BisRootWithin(fn, lo, hi, c, tol) ==
  \E p \in (c - BisTolSpan(tol) - 1)..(c + BisTolSpan(tol)) :
    p >= lo /\ p <= hi /\ BisCrossesAt(fn, p, hi)
\* runBisection ended on (bb - aa)/2 <= tol: not on f(c) = 0, not on the cap
BisRanToTol ==
  /\ page = "Bisection" /\ bisRun.pc = "idle" /\ bisRun.last = "ran"
  /\ bis.steps # <<>> /\ Len(bis.steps) < BisPageCap
  /\ Last(bis.steps).fc # 0
  /\ FLt(bis.a, bis.b) /\ BisStrictBracket

\* C27: the root the Bisection page reports, the midpoint c of the last
\* recorded step, lies within tol of a point of the initial bracket where f
\* is zero or changes sign, when the run stopped on the tolerance condition.
C27_ReportedRootWithinTol ==
  BisRanToTol =>
    BisRootWithin(bis.fx, bis.a, bis.b, Last(bis.steps).c, bis.tol)

(***************************************************************************)
(*            the length of the trace of the Newton-Raphson page           *)
(***************************************************************************)
\* the trace on the page is the one of a run with nrRun.maxIter
NrTraceShown == page = "NewtonRaphson" /\ nrRun.kind = "ran"

\* C28: the trace of the Newton-Raphson page never holds more than maxIter
\* records and no record carries a step index above maxIter, also when the
\* step criterion is met in the last allowed iteration.
C28_TraceWithinMaxIter ==
  NrTraceShown =>
    /\ Len(nr.steps) <= nrRun.maxIter
    /\ \A k \in 1..Len(nr.steps) : nr.steps[k].i <= nrRun.maxIter

(***************************************************************************)
(*          solve results and the factorization they came from             *)
(***************************************************************************)
\* C29: on the LU page stored solve results imply a stored factorization:
\* solveData # null implies LU # null in every state reachable by factorize,
\* solve and edits, so a failed factorize leaves no solve results of an
\* earlier factorization behind.
C29_SolveDataHasFactorization ==
  page = "LuDecomposition" => (lu.solveData # Null => lu.LU # Null)

(***************************************************************************)
(*                  what a solve of the LU page is made from               *)
(***************************************************************************)
\* the product of a matrix and a vector, in exact arithmetic
LuTimes(M, x) == [i \in 1..Len(M) |-> RSum([j \in 1..Len(x) |-> RMul(M[i][j], x[j])])]
\* the right-hand sides typed in
LuRhs(k) == ToRVec(SplitVectors(lu.btext)[k])
\* a step of solve on the page
LuSolveStep ==
  page = "LuDecomposition" /\ page' = page /\ luRun'.op = "solve"
\* x is what substitution on the stored factors gives for b: L (U x) = P b,
\* and not a number somewhere when U has a zero on its diagonal
LuFromStored(LU, x, b) ==
  IF \A i \in 1..Len(LU.U) : LU.U[i][i] # R0
  THEN LuTimes(LU.L, LuTimes(LU.U, x)) = LuPermute(LU.p, b)
  ELSE \E i \in 1..Len(x) : RBad(x[i])
\* with nothing stored solve sets its message and leaves solveData alone
LuSolveRefuses ==
  (LuSolveStep /\ lu.LU = Null) =>
    /\ lu'.err = LuMsgFirst /\ luRun'.last = "refused"
    /\ lu'.solveData = lu.solveData /\ lu'.LU = Null
\* with a factorization stored the solutions are those of its factors
LuSolveUsesStored ==
  (LuSolveStep /\ lu.LU # Null) =>
    /\ lu'.LU = lu.LU
    /\ IF luRun'.last = "solved"
       THEN /\ lu'.solveData # Null
            /\ Len(lu'.solveData.solutions) = Len(SplitVectors(lu.btext))
            /\ \A k \in 1..Len(lu'.solveData.solutions) :
                 LuFromStored(lu.LU, lu'.solveData.solutions[k], LuRhs(k))
       ELSE lu'.solveData = lu.solveData
\* only factorize replaces the stored factorization
LuOnlyFactorizeStores ==
  (page = "LuDecomposition" /\ page' = page /\ luRun'.op # "factorize") =>
    lu'.LU = lu.LU

\* C30: on the LU page a solve is computed from a stored factorization only:
\* with none stored solve sets 'Factorise A first' and leaves solveData
\* unchanged; with one stored it uses the matrix captured at that factorize,
\* so edits of the matrix text do not reach the solutions until factorize
\* runs again.
C30_SolveUsesStoredFactorization ==
  [][LuSolveRefuses /\ LuSolveUsesStored /\ LuOnlyFactorizeStores]_vars
\* witness of C30: a solve gave solutions after the matrix text was edited
\* away from the matrix that was factorized
C30_Witness ==
  /\ page = "LuDecomposition" /\ luRun.op = "solve" /\ luRun.last = "solved"
  /\ lu.LU # Null /\ lu.solveData # Null
  /\ lu.LU.A # ToRMat(SplitRows(lu.Atext))
  /\ \A i \in 1..Len(lu.LU.U) : lu.LU.U[i][i] # R0

====
